---- MODULE Spec2Model ----
(***************************************************************************)
(* A model of the uLisp runtime of the Lisp Badge LE                       *)
(* (src/LispBadgeLE/v.lisp, src/LispBadgeLE/ulisp-extensions.ino):         *)
(* the object arena with its allocator, the mark/sweep collector, the      *)
(* compactor and the flash image, and the evaluator's error handlers and   *)
(* raw keyboard.                                                           *)
(*                                                                         *)
(* A cell is a pair of machine words [car, cdr].  Words are naturals: 0 is *)
(* NULL, a pointer is the address of a cell, a type tag is an even number  *)
(* below PAIR, and bit 0 of the first word is the mark bit, exactly as in   *)
(* the C union.  Pointers and payloads share one word space, so a payload  *)
(* can have the same value as an address.                                  *)
(***************************************************************************)
EXTENDS Integers, Sequences, FiniteSets, TLC

(* ------------------------------------------------------------------ *)
(* Bounds of the model                                                 *)
(* ------------------------------------------------------------------ *)

\* number of cells of the arena (2800 on the badge)
WORKSPACESIZE == 5

\* number of mutator steps of a run (allocations and pointer moves)
MaxOps == 3

\* longest character chain of a string or long symbol built by the mutator
MaxChain == 1

\* how far past the arena compactimage's scan for a free slot may run
MaxOverrun == 1

(* ------------------------------------------------------------------ *)
(* Program constants                                                   *)
(* ------------------------------------------------------------------ *)

NULL == 0
MARKBIT == 1
ZZERO == 0
SYMBOL == 2
NUMBER == 6
CHARACTER == 10
ARRAY == 12
\* STRING of enum type (the name STRING is taken in TLA+)
STRINGTYPE == 14
PAIR == 16

\* sizeof(object): two 16-bit words
CellBytes == 4

\* address of Workspace[0]: the lowest aligned address that is no type tag
WorkspaceBase == PAIR

Cells == 0 .. (WORKSPACESIZE - 1)

Addr(i) == WorkspaceBase + CellBytes * i

Idx(p) == (p - WorkspaceBase) \div CellBytes

IsAddr(p) == /\ p >= WorkspaceBase
             /\ p < Addr(WORKSPACESIZE)
             /\ (p - WorkspaceBase) % CellBytes = 0

\* The payload words the mutator stores (integers, packed characters): one has
\* the value of a cell address (on the badge the arena covers 0x5440..0x6BBF,
\* so the packed characters "dd" = 0x6464 are the address of a cell), the
\* other is the next word, which is no address.
AliasWord == Addr(1)
PlainWord == AliasWord + 1
PayloadWords == {PlainWord, AliasWord}

(* ------------------------------------------------------------------ *)
(* C macros                                                            *)
(* ------------------------------------------------------------------ *)

car(W, p) == W[Idx(p)].car
cdr(W, p) == W[Idx(p)].cdr

SetCar(W, p, v) == [W EXCEPT ![Idx(p)].car = v]
SetCdr(W, p, v) == [W EXCEPT ![Idx(p)].cdr = v]

OrMark(w) == IF w % 2 = 1 THEN w ELSE w + MARKBIT
ClrMark(w) == w - (w % 2)

mark(W, p) == SetCar(W, p, OrMark(car(W, p)))
\* (mutant) unmark leaves the bit set
unmarkKeepBit(W, p) == W

unmark(W, p) == SetCar(W, p, ClrMark(car(W, p)))
marked(W, p) == car(W, p) % 2 = 1

longnamep(x) == x % 4 = 0
longsymbolp(W, p) == longnamep(cdr(W, p))

\* consp / listp of a non-NULL cell: its first word is a pointer or NULL
PairType(t) == t >= PAIR \/ t = ZZERO

VARIABLES
  Workspace,   \* the arena: Cells -> [car, cdr]
  Freelist,    \* head of the free list
  Freespace,   \* the free-cell counter
  GlobalEnv,   \* root: global environment
  GCStack,     \* root: GC-protection stack
  tee,         \* root: the cell of the symbol t
  form,        \* eval's current form (a C local, root of gc(form, env))
  env,         \* eval's current environment
  Flash,       \* the saved image in the flash area
  MyCode,      \* the machine-code buffer of the assembler
  rec,         \* record of the last collector / image operation
  ops          \* number of mutator steps taken

heapvars ==
  <<Workspace, Freelist, Freespace, GlobalEnv, GCStack, tee, form, env, Flash, MyCode, rec, ops>>

VARIABLES
  stack,       \* the C functions waiting for a nested eval to return, outermost first (below them repl)
  ctl,         \* where the evaluator is: at the prompt, entering eval, returning, ...
  handler,     \* the jmp_buf errors longjmp to: 0 toplevel_handler, i the dynamic_handler of stack[i]
  Flags,       \* the flags that are set
  KybdRawMode, \* the nesting count of with-kb-raw
  WritePtr,    \* the next free slot of KybdBuf
  KybdBuf,     \* the keyboard buffer
  BreakLevel,  \* the number of (break) loops entered and not left
  evrec        \* (history) the special form or builtin that has just finished

evalvars == <<stack, ctl, handler, Flags, KybdRawMode, WritePtr, KybdBuf, BreakLevel, evrec>>

VARIABLES
  Input,       \* the forms still to be typed at the prompt, as the reader returns them
  evals,       \* the activations of eval() on the C stack, outermost first
  pairs,       \* the (symbol . value) cells of the environments, by number
  genv,        \* GlobalEnv as the list of its pair cells, newest first
  TraceFn,     \* the names being traced
  lrec         \* (history) what the evaluation of the current form has done

lispvars == <<Input, evals, pairs, genv, TraceFn, lrec>>

VARIABLES
  EditBuf,     \* the edit buffer and the bytes behind it
  EditBufLen,  \* the number of characters in the edit buffer
  calc         \* (history) the last call of a builtin taken on its own: its input and result

utilvars == <<EditBuf, EditBufLen, calc>>

vars == <<heapvars, evalvars, lispvars, utilvars>>

(* ------------------------------------------------------------------ *)
(* Allocator                                                           *)
(* ------------------------------------------------------------------ *)

\* A heap is a record [W, Freelist, Freespace]; allocation also yields ptr.
Heap(W, fl, fs) == [W |-> W, Freelist |-> fl, Freespace |-> fs]

\* initworkspace: every cell cleared and threaded on the free list, cell 0 first
initworkspace ==
  Heap([i \in Cells |-> [car |-> NULL,
                         cdr |-> IF i = WORKSPACESIZE - 1 THEN NULL ELSE Addr(i + 1)]],
       Addr(0), WORKSPACESIZE)

myallocKeepHead(H) ==
  [W |-> H.W, Freelist |-> H.Freelist, Freespace |-> H.Freespace - 1,
   ptr |-> H.Freelist]

\* myalloc when Freespace > 0: pops the head of the free list
myalloc(H) ==
  [W |-> H.W, Freelist |-> cdr(H.W, H.Freelist), Freespace |-> H.Freespace - 1,
   ptr |-> H.Freelist]

\* (mutant) myfree pushes the cell without counting it
myfreeNoCount(H, p) ==
  Heap(SetCdr(SetCar(H.W, p, NULL), p, H.Freelist), p, H.Freespace)

\* myfree: clears the first word, pushes the cell on the free list
myfree(H, p) ==
  Heap(SetCdr(SetCar(H.W, p, NULL), p, H.Freelist), p, H.Freespace + 1)

\* the cell makers: myalloc, then both words written
MakeCell(H, a, d) ==
  LET A == myalloc(H)
  IN  [W |-> [A.W EXCEPT ![Idx(A.ptr)] = [car |-> a, cdr |-> d]],
       Freelist |-> A.Freelist, Freespace |-> A.Freespace, ptr |-> A.ptr]

cons(H, a, d) == MakeCell(H, a, d)
number(H, n) == MakeCell(H, NUMBER, n)
character(H, c) == MakeCell(H, CHARACTER, c)
symbol(H, name) == MakeCell(H, SYMBOL, name)
newstring(H) == MakeCell(H, STRINGTYPE, 0)

(* ------------------------------------------------------------------ *)
(* Garbage collection                                                  *)
(* ------------------------------------------------------------------ *)

\* the while loop of markobject over a string / long-symbol chain
RECURSIVE markchain(_, _)
markchain(W, obj) ==
  IF obj = NULL THEN W
  ELSE markchain(mark(W, obj), car(W, obj))

RECURSIVE markobject(_, _)
markobject(W, obj) ==
  IF obj = NULL THEN W
  ELSE IF marked(W, obj) THEN W
  ELSE LET arg == car(W, obj)
           type == arg
           W1 == mark(W, obj)
       IN  IF PairType(type)
             THEN markobject(markobject(W1, arg), cdr(W1, obj))
           ELSE IF type = ARRAY
             THEN markobject(W1, cdr(W1, obj))
           ELSE IF type = STRINGTYPE \/ (type = SYMBOL /\ longsymbolp(W1, obj))
             THEN markchain(W1, cdr(W1, obj))
           ELSE W1

\* sweep: from the top cell down, free the unmarked, unmark the marked
RECURSIVE sweepfrom(_, _)
sweepfrom(H, i) ==
  IF i < 0 THEN H
  ELSE IF ~marked(H.W, Addr(i))
         THEN sweepfrom(myfree(H, Addr(i)), i - 1)
         ELSE sweepfrom(Heap(unmark(H.W, Addr(i)), H.Freelist, H.Freespace), i - 1)

\* (mutant) sweep stops one cell short of the bottom of the arena
sweepShort(W) ==
  LET H == sweepfrom(Heap(W, NULL, 0), WORKSPACESIZE - 1)
  IN  IF H.Freespace = 0 THEN H
      ELSE Heap(H.W, cdr(H.W, H.Freelist), H.Freespace - 1)

sweep(W) == sweepfrom(Heap(W, NULL, 0), WORKSPACESIZE - 1)

\* (mutant) gc does not mark the cell of t
gcrootsNoTee(ge, gs, f, e) == <<ge, gs, f, e>>

\* (mutant) gc forgets to mark the form under evaluation
gcrootsNoForm(ge, gs, f, e) == <<tee, ge, gs, e>>

\* the roots gc marks, in order
gcroots(ge, gs, f, e) == <<tee, ge, gs, f, e>>

RECURSIVE markall(_, _)
markall(W, roots) ==
  IF roots = <<>> THEN W
  ELSE markall(markobject(W, Head(roots)), Tail(roots))

gc(W, ge, gs, f, e) == sweep(markall(W, gcroots(ge, gs, f, e)))

(* ------------------------------------------------------------------ *)
(* Compact image                                                       *)
(* ------------------------------------------------------------------ *)

\* first loop of movepointer, one cell: pair-like marked cells get both words fixed
movecell(c, from, to) ==
  LET type == ClrMark(c.car)
  IN  IF c.car % 2 = 1 /\ (type >= ARRAY \/ type = ZZERO \/ (type = SYMBOL /\ longnamep(c.cdr)))
        THEN [car |-> IF c.car = OrMark(from) THEN OrMark(to) ELSE c.car,
              cdr |-> IF c.cdr = from THEN to ELSE c.cdr]
        ELSE c

\* second loop of movepointer, the walk along one chain
RECURSIVE fixchain(_, _, _, _)
fixchain(W, obj, from, to) ==
  IF obj = NULL THEN W
  ELSE fixchain(IF cdr(W, obj) = to THEN SetCdr(W, obj, from) ELSE W,
                ClrMark(car(W, obj)), from, to)

\* second loop of movepointer: "Fix strings and long symbols"
RECURSIVE fixstrings(_, _, _, _)
fixstrings(W, i, from, to) ==
  IF i >= WORKSPACESIZE THEN W
  ELSE LET obj == Addr(i)
           type == ClrMark(car(W, obj))
       IN  IF marked(W, obj) /\ (type = STRINGTYPE \/ (type = SYMBOL /\ longsymbolp(W, obj)))
             THEN fixstrings(fixchain(W, cdr(W, obj), from, to), i + 1, from, to)
             ELSE fixstrings(W, i + 1, from, to)

movepointer(W, from, to) ==
  fixstrings([i \in Cells |-> movecell(W[i], from, to)], 0, from, to)

\* while (marked(firstfree)) firstfree++;  past the arena the scan reads
\* whatever follows Workspace: it stops `over` cells beyond the end
RECURSIVE nextfree(_, _, _)
nextfree(W, i, over) ==
  IF i >= WORKSPACESIZE THEN WORKSPACESIZE + over
  ELSE IF marked(W, Addr(i)) THEN nextfree(W, i + 1, over)
  ELSE i

\* the main loop of compactimage; S = [W, ge, gs, arg, firstfree, fwd]
\* (fwd records for each moved cell where it went)
RECURSIVE compactloop(_, _, _)
compactloop(S, obj, over) ==
  IF ~(S.firstfree < obj) THEN S
  ELSE IF marked(S.W, Addr(obj))
    THEN LET from == Addr(obj)
             to == Addr(S.firstfree)
             W1 == [S.W EXCEPT ![S.firstfree] = S.W[obj]]
             W2 == unmark(W1, from)
             W3 == movepointer(W2, from, to)
         IN  compactloop([W |-> W3,
                          ge |-> IF S.ge = from THEN to ELSE S.ge,
                          gs |-> IF S.gs = from THEN to ELSE S.gs,
                          arg |-> IF S.arg = from THEN to ELSE S.arg,
                          firstfree |-> nextfree(W3, S.firstfree, over),
                          fwd |-> [S.fwd EXCEPT ![obj] = S.firstfree]],
                         obj - 1, over)
    ELSE compactloop(S, obj - 1, over)

\* compactimage(&arg): result [H, ge, gs, arg, n, fwd]
compactimage(W, ge, gs, arg, over) ==
  LET W0 == markall(W, <<tee, ge, gs>>)
      S == compactloop([W |-> W0, ge |-> ge, gs |-> gs, arg |-> arg,
                        firstfree |-> nextfree(W0, 0, over),
                        fwd |-> [i \in Cells |-> i]],
                       WORKSPACESIZE - 1, over)
  IN  [H |-> sweep(S.W), ge |-> S.ge, gs |-> S.gs, arg |-> S.arg,
       n |-> S.firstfree, fwd |-> S.fwd]

(* ------------------------------------------------------------------ *)
(* Symbols and strings                                                 *)
(* ------------------------------------------------------------------ *)

PACKEDS == 17600
BUILTINS == 64000
TEE == 1
NOTHING == 2
Word16 == 65536

\* (mutant) twist shifts without bringing the two top bits round
twistShiftOnly(x) == (x * 4) % Word16

twist(x) == ((x * 4) % Word16) + ((x \div 16384) % 4)
untwist(x) == ((x \div 4) % 16384) + ((x % 4) * 16384)

\* the cells intern(name) finds: SYMBOL cells of that name, lowest index first
SymbolCells(W, name) == {i \in Cells : W[i].car = SYMBOL /\ W[i].cdr = name}

Lowest(S) == CHOOSE i \in S : \A j \in S : i <= j

\* the packed words of the chain starting at obj (fuel bounds the walk)
RECURSIVE chainwords(_, _, _)
chainwords(W, obj, fuel) ==
  IF obj = NULL \/ fuel = 0 THEN <<>>
  ELSE <<cdr(W, obj)>> \o chainwords(W, car(W, obj), fuel - 1)

\* eqsymbols: the symbol's chain holds exactly the packed words of the buffer
eqsymbols(W, obj, words) == chainwords(W, cdr(W, obj), WORKSPACESIZE) = words

LongSymbolCells(W, words) ==
  {i \in Cells : /\ W[i].car = SYMBOL
                 /\ longnamep(W[i].cdr)
                 /\ eqsymbols(W, Addr(i), words)}

(* ------------------------------------------------------------------ *)
(* Builders: a run of allocations that stops at the first myalloc that  *)
(* finds Freespace = 0.  Result [ok, H, ptr].                           *)
(* ------------------------------------------------------------------ *)

Built(H, p) == [ok |-> TRUE, H |-> H, ptr |-> p]
NoRoom(H) == [ok |-> FALSE, H |-> H, ptr |-> NULL]

TryCell(H, a, d) ==
  IF H.Freespace = 0 THEN NoRoom(H)
  ELSE LET A == MakeCell(H, a, d)
       IN  Built(Heap(A.W, A.Freelist, A.Freespace), A.ptr)

\* intern: an existing SYMBOL cell of that name, else a new one
intern(H, name) ==
  IF SymbolCells(H.W, name) # {} THEN Built(H, Addr(Lowest(SymbolCells(H.W, name))))
  ELSE TryCell(H, SYMBOL, name)

bsymbol(H, name) == intern(H, twist(name + BUILTINS))

\* buildstring, once per packed word: a new chain cell linked behind tail
\* (behind the head through its second word, behind a chain cell through its first)
RECURSIVE buildchain(_, _, _, _)
buildchain(H, head, tail, words) ==
  IF words = <<>> THEN Built(H, head)
  ELSE IF H.Freespace = 0 THEN NoRoom(H)
  ELSE LET A == MakeCell(H, NULL, Head(words))
           W1 == IF tail = head THEN SetCdr(A.W, tail, A.ptr) ELSE SetCar(A.W, tail, A.ptr)
       IN  buildchain(Heap(W1, A.Freelist, A.Freespace), head, A.ptr, Tail(words))

\* lispstring / readstring
lispstring(H, words) ==
  LET S == TryCell(H, STRINGTYPE, 0)
  IN  IF ~S.ok THEN S ELSE buildchain(S.H, S.ptr, S.ptr, words)

\* internlong: an existing long symbol with these characters, else a string retyped
internlong(H, words) ==
  IF LongSymbolCells(H.W, words) # {}
    THEN Built(H, Addr(Lowest(LongSymbolCells(H.W, words))))
  ELSE LET S == lispstring(H, words)
       IN  IF ~S.ok THEN S ELSE Built(Heap(SetCar(S.H.W, S.ptr, SYMBOL), S.H.Freelist, S.H.Freespace), S.ptr)

\* makearray of size 0: the ARRAY cell, then cons(tree, dimensions) with tree = nil
makearray(H, dims) ==
  LET P == TryCell(H, ARRAY, IF H.Freespace = 0 THEN NULL ELSE cdr(H.W, H.Freelist))
  IN  IF ~P.ok THEN P
      ELSE LET C == TryCell(P.H, NULL, dims)
           IN  IF ~C.ok THEN C
               ELSE Built(Heap(SetCdr(C.H.W, P.ptr, C.ptr), C.H.Freelist, C.H.Freespace), P.ptr)

(* ------------------------------------------------------------------ *)
(* State: the heap, its roots, the flash image                         *)
(* ------------------------------------------------------------------ *)

CurHeap == Heap(Workspace, Freelist, Freespace)

CODESIZE == 96
CodeCells == 0 .. (CODESIZE - 1)

\* erased flash reads 0xFFFF everywhere
ErasedFlash ==
  [arg |-> Word16 - 1, imagesize |-> Word16 - 1, GlobalEnv |-> Word16 - 1,
   GCStack |-> Word16 - 1, code |-> [i \in CodeCells |-> 255], cells |-> <<>>, want |-> <<>>]

\* rec.op names the operation that made the last step: W, ge, gs, f, e are the
\* arena and the roots it started from, arg / n / fwd what compactimage gave back
NoRec ==
  [op |-> "none", W |-> <<>>, ge |-> NULL, gs |-> NULL, f |-> NULL, e |-> NULL,
   arg |-> NULL, n |-> 0, fwd |-> <<>>]

\* the name of a user symbol of up to three characters
UserName == twist(PACKEDS)

\* setup(): initworkspace, then initenv
HeapInit ==
  LET T == bsymbol(initworkspace, TEE)
  IN  /\ Workspace = T.H.W
      /\ Freelist = T.H.Freelist
      /\ Freespace = T.H.Freespace
      /\ GlobalEnv = NULL
      /\ GCStack = NULL
      /\ tee = T.ptr
      /\ form = NULL
      /\ env = NULL
      /\ Flash = ErasedFlash
      /\ MyCode = [i \in CodeCells |-> 0]
      /\ rec = NoRec
      /\ ops = 0

\* no collector or image operation is between two of its steps
\* the size of the keyboard buffer
KybdBufSize == 2

Slots == 0..(KybdBufSize - 1)

\* the evaluator's position; form, when not NULL, is a form built in the arena
Ctl(m) == [m |-> m, form |-> NULL, val |-> NULL, w |-> 0, oldest |-> 0]

\* the result of the last finished form, none yet
NoEv ==
  [op |-> "none", left |-> 0, sig |-> FALSE, out |-> "", val |-> NULL,
   gcs |-> NULL, got |-> 0, oldest |-> 0, rf |-> FALSE, level |-> 0]

\* the globals after setup(): no flag that matters set, the keyboard in line mode
EvalInit ==
  /\ stack = <<>>
  /\ ctl = Ctl("prompt")
  /\ handler = 0
  /\ Flags = {}
  /\ KybdRawMode = 0
  /\ WritePtr = 0
  /\ KybdBuf = [i \in Slots |-> 0]
  /\ BreakLevel = 0
  /\ evrec = NoEv

\* the evaluator over S-expressions (below) before a line is typed
TRACEMAX == 3
nil == [t |-> "nil"]

NoLrec ==
  [line |-> nil, fin |-> FALSE, err |-> "", val |-> nil, done |-> 0, calls |-> <<>>,
   disp |-> [name |-> "", nargs |-> 0, err |-> "", path |-> ""],
   sym |-> [x |-> nil, env |-> <<>>, G |-> <<>>, P |-> <<>>, err |-> "", val |-> nil],
   lam |-> [env |-> <<>>, val |-> nil]]

\* no form is typed: the evaluator over S-expressions stays at the prompt
LispQuiet ==
  /\ Input = <<>>
  /\ evals = <<>>
  /\ pairs = <<>>
  /\ genv = <<>>
  /\ TraceFn = [i \in 1 .. TRACEMAX |-> ""]
  /\ lrec = NoLrec

\* the edit buffer of the visual editor: EditBufSize characters, and the
\* bytes behind the array that a write past its end lands on
MaxStrLen == 3
MaxBehind == 2
EditBufSize == KybdBufSize
BufCells == 0 .. (EditBufSize + MaxBehind - 1)

\* (history) the last call of a function of the reader, the arithmetic or the
\* edit buffer: its arguments in, i and c, the error it raised, the value it
\* returned, and the buffer before it; s is the string of the last buf-init
\* while fresh (nothing has changed the buffer since), out the string buf-string
\* returned, prev and prevlen the buffer before the buf-insert that a buf-delete
\* at the same index has followed (undo); for a do or do* loop in is the list of
\* its variables, test its end test, ret whether its body is (return), star the
\* flag of dobody, cells the (var . value) pairs made, list the (step . pair)
\* entries, gcs what dobody has on GCStack, n the rounds made, old the pairs
\* before the last stepping
NoCalc ==
  [op |-> "none", in |-> <<>>, i |-> 0, c |-> 0, err |-> "", val |-> 0,
   old |-> <<>>, oldlen |-> 0, s |-> <<>>, fresh |-> FALSE, out |-> <<>>,
   undo |-> FALSE, prev |-> <<>>, prevlen |-> 0, star |-> FALSE, test |-> "",
   ret |-> FALSE, cells |-> <<>>, list |-> <<>>, gcs |-> <<>>, n |-> 0]

UtilQuiet ==
  /\ EditBuf = [i \in BufCells |-> 0]
  /\ EditBufLen = 0
  /\ calc = NoCalc

Init == HeapInit /\ EvalInit /\ LispQuiet /\ UtilQuiet

\* the heap operations taken on their own: no evaluation is in progress
EvalIdle == ctl.m = "prompt" /\ UNCHANGED <<evalvars, lispvars, utilvars>>

Idle == rec.op \notin {"compactimage", "loadimage"} /\ EvalIdle

\* a mutator step within the budget of the run
Step == Idle /\ ops < MaxOps /\ ops' = ops + 1

\* the end of a builder run: the result goes to eval's form, or errorend()
\* clears GCStack and longjmps to the top level, where the locals are gone
Finish(R) ==
  /\ Workspace' = R.H.W
  /\ Freelist' = R.H.Freelist
  /\ Freespace' = R.H.Freespace
  /\ form' = IF R.ok THEN R.ptr ELSE NULL
  /\ env' = IF R.ok THEN env ELSE NULL
  /\ GCStack' = IF R.ok THEN GCStack ELSE NULL
  /\ rec' = NoRec
  /\ UNCHANGED <<GlobalEnv, tee, Flash, MyCode>>

\* the values a builtin gets as arguments
Operands == {NULL, form, env}

ChainWords == UNION {[1 .. k -> PayloadWords] : k \in 0 .. MaxChain}

\* number(n) and character(c): a scalar cell
NewScalar ==
  \E t \in {NUMBER, CHARACTER}, n \in PayloadWords :
    Step /\ (t = CHARACTER => n = PlainWord) /\ Finish(TryCell(CurHeap, t, n))

NewSymbol == Step /\ Finish(intern(CurHeap, UserName))

NewCons == \E a \in Operands, d \in Operands : Step /\ Finish(TryCell(CurHeap, a, d))

NewString == \E ws \in ChainWords : Step /\ Finish(lispstring(CurHeap, ws))

NewLongSymbol == \E ws \in ChainWords : Step /\ ws # <<>> /\ Finish(internlong(CurHeap, ws))

NewArray == Step /\ Finish(makearray(CurHeap, form))

IsPair(W, p) == p # NULL /\ PairType(car(W, p))

\* protect(form)
Protect ==
  /\ Step
  /\ LET R == TryCell(CurHeap, form, GCStack)
     IN  /\ Workspace' = R.H.W
         /\ Freelist' = R.H.Freelist
         /\ Freespace' = R.H.Freespace
         /\ GCStack' = IF R.ok THEN R.ptr ELSE NULL
         /\ form' = IF R.ok THEN form ELSE NULL
         /\ env' = IF R.ok THEN env ELSE NULL
  /\ rec' = NoRec
  /\ UNCHANGED <<GlobalEnv, tee, Flash, MyCode>>

\* unprotect()
Unprotect ==
  /\ Step
  /\ GCStack # NULL
  /\ GCStack' = cdr(Workspace, GCStack)
  /\ rec' = NoRec
  /\ UNCHANGED <<Workspace, Freelist, Freespace, GlobalEnv, tee, form, env, Flash, MyCode>>

\* sp_defvar: push(pair, GlobalEnv)
Defvar ==
  /\ Step
  /\ LET R == TryCell(CurHeap, form, GlobalEnv)
     IN  /\ Workspace' = R.H.W
         /\ Freelist' = R.H.Freelist
         /\ Freespace' = R.H.Freespace
         /\ GlobalEnv' = IF R.ok THEN R.ptr ELSE GlobalEnv
         /\ GCStack' = IF R.ok THEN GCStack ELSE NULL
         /\ form' = IF R.ok THEN form ELSE NULL
         /\ env' = IF R.ok THEN env ELSE NULL
  /\ rec' = NoRec
  /\ UNCHANGED <<tee, Flash, MyCode>>

\* eval descends into a list: function = car(form), args = cdr(form)
Descend ==
  /\ Step
  /\ IsPair(Workspace, form)
  /\ \E w \in {car(Workspace, form), cdr(Workspace, form)} : form' = w
  /\ rec' = NoRec
  /\ UNCHANGED <<Workspace, Freelist, Freespace, GlobalEnv, GCStack, tee, env, Flash, MyCode>>

\* a new environment for the body: env = newenv
Bind ==
  /\ Step
  /\ env' = form
  /\ form' = NULL
  /\ rec' = NoRec
  /\ UNCHANGED <<Workspace, Freelist, Freespace, GlobalEnv, GCStack, tee, Flash, MyCode>>

\* fn_rplacd on the current form
Rplacd ==
  /\ Step
  /\ IsPair(Workspace, form)
  /\ \E v \in Operands : Workspace' = SetCdr(Workspace, form, v)
  /\ rec' = NoRec
  /\ UNCHANGED <<Freelist, Freespace, GlobalEnv, GCStack, tee, form, env, Flash, MyCode>>

\* eval, line 5491: collect when a sixteenth of the workspace is left
EvalGc ==
  /\ Idle
  /\ UNCHANGED ops
  /\ Freespace <= WORKSPACESIZE \div 16
  /\ \E H \in {gc(Workspace, GlobalEnv, GCStack, form, env)} :
         /\ Workspace' = H.W
         /\ Freelist' = H.Freelist
         /\ Freespace' = H.Freespace
  /\ rec' = [NoRec EXCEPT !.op = "gc", !.W = Workspace, !.ge = GlobalEnv,
                          !.gs = GCStack, !.f = form, !.e = env]
  /\ UNCHANGED <<GlobalEnv, GCStack, tee, form, env, Flash, MyCode>>

\* repl: gc(NULL, env) before each line is read; the last form is gone
ReplGc ==
  /\ Idle
  /\ UNCHANGED ops
  /\ \E H \in {gc(Workspace, GlobalEnv, GCStack, NULL, env)} :
         /\ Workspace' = H.W
         /\ Freelist' = H.Freelist
         /\ Freespace' = H.Freespace
  /\ form' = NULL
  /\ rec' = [NoRec EXCEPT !.op = "gc", !.W = Workspace, !.ge = GlobalEnv,
                          !.gs = GCStack, !.f = NULL, !.e = env]
  /\ UNCHANGED <<GlobalEnv, GCStack, tee, env, Flash, MyCode>>

HeapNext ==
  \/ NewScalar \/ NewSymbol \/ NewCons \/ NewString
  \/ NewLongSymbol \/ NewArray \/ Protect \/ Unprotect \/ Defvar
  \/ Descend \/ Bind \/ Rplacd \/ EvalGc \/ ReplGc

SpecHeap == Init /\ [][HeapNext]_vars

(* ------------------------------------------------------------------ *)
(* Reachability, defined on the object graph (not by the marker)        *)
(* ------------------------------------------------------------------ *)

\* A node is <<cell index, role>>: a cell is reached as an object or as a link
\* of a character chain (a chain link keeps its pointer in the first word).
Node(p, role) == IF p = NULL THEN {} ELSE {<<Idx(p), role>>}

Succ(W, nd) ==
  LET c == W[nd[1]]
  IN  IF nd[2] = "chain" THEN Node(c.car, "chain")
      ELSE IF PairType(c.car) THEN Node(c.car, "obj") \cup Node(c.cdr, "obj")
      ELSE IF c.car = ARRAY THEN Node(c.cdr, "obj")
      ELSE IF c.car = STRINGTYPE \/ (c.car = SYMBOL /\ longnamep(c.cdr)) THEN Node(c.cdr, "chain")
      ELSE {}

RECURSIVE Closure(_, _)
Closure(W, S) ==
  LET T == S \cup UNION {Succ(W, nd) : nd \in S}
  IN  IF T = S THEN S ELSE Closure(W, T)

ReachNodes(W, roots) == Closure(W, UNION {Node(r, "obj") : r \in roots})

Reach(W, roots) == {nd[1] : nd \in ReachNodes(W, roots)}

\* the cells on the free list
RECURSIVE FreeCells(_, _, _)
FreeCells(W, p, fuel) ==
  IF p = NULL \/ fuel = 0 THEN {}
  ELSE {Idx(p)} \cup FreeCells(W, cdr(W, p), fuel - 1)

OnFreeList == FreeCells(Workspace, Freelist, WORKSPACESIZE)

\* a cell as it must read after its pointers are redirected through fwd
Moved(fwd, p) == IF p = NULL THEN NULL ELSE Addr(fwd[Idx(p)])

Relocated(W, fwd, nd) ==
  LET c == W[nd[1]]
  IN  IF nd[2] = "chain" THEN [car |-> Moved(fwd, c.car), cdr |-> c.cdr]
      ELSE IF PairType(c.car) THEN [car |-> Moved(fwd, c.car), cdr |-> Moved(fwd, c.cdr)]
      ELSE IF c.car = ARRAY \/ c.car = STRINGTYPE \/ (c.car = SYMBOL /\ longnamep(c.cdr))
        THEN [car |-> c.car, cdr |-> Moved(fwd, c.cdr)]
      ELSE c

(* ------------------------------------------------------------------ *)
(* save-image and load-image                                           *)
(* ------------------------------------------------------------------ *)

FLASHWRITESIZE == 16384

\* listp of a non-NULL pointer
listp(W, p) == p = NULL \/ PairType(car(W, p))

\* saveimage, first statement: imagesize = compactimage(&arg).
\* fn_saveimage passes NULL or the value its argument evaluated to.
SaveCompact ==
  /\ Idle
  /\ env = NULL
  /\ \E arg \in {NULL, form}, over \in 0 .. MaxOverrun :
       \E C \in {compactimage(Workspace, GlobalEnv, GCStack, arg, over)} :
           /\ Workspace' = C.H.W
           /\ Freelist' = C.H.Freelist
           /\ Freespace' = C.H.Freespace
           /\ GlobalEnv' = C.ge
           /\ GCStack' = C.gs
           /\ form' = C.arg
           /\ rec' = [op |-> "compactimage", W |-> Workspace, ge |-> GlobalEnv,
                      gs |-> GCStack, f |-> arg, e |-> NULL,
                      arg |-> C.arg, n |-> C.n, fwd |-> C.fwd]
  /\ UNCHANGED <<tee, env, Flash, MyCode, ops>>

\* the image as it is written: the header words and the first n cells
\* (cells past the arena are not part of the model)
ImageOf(arg, n, want) ==
  [arg |-> arg, imagesize |-> n, GlobalEnv |-> GlobalEnv, GCStack |-> GCStack, code |-> MyCode,
   cells |-> [i \in 1 .. (IF n < WORKSPACESIZE THEN n ELSE WORKSPACESIZE) |-> Workspace[i - 1]],
   want |-> want]

\* the image a save of the arena rec.W must hold: every cell that was reachable
\* from GlobalEnv and GCStack, at its new place, with its pointers redirected
WantedImage ==
  LET nodes == ReachNodes(rec.W, {rec.ge, rec.gs})
  IN  [ge |-> Moved(rec.fwd, rec.ge), gs |-> Moved(rec.fwd, rec.gs),
       cells |-> {<<rec.fwd[nd[1]], Relocated(rec.W, rec.fwd, nd)>> : nd \in nodes}]

\* saveimage, the rest, and fn_saveimage's number(imagesize)
SaveWrite ==
  /\ rec.op = "compactimage"
  /\ EvalIdle
  /\ LET arg == rec.arg
         bad == ~listp(Workspace, arg)
         toolarge == 10 + CODESIZE + rec.n * 4 > FLASHWRITESIZE
         R == IF bad \/ toolarge THEN NoRoom(CurHeap) ELSE TryCell(CurHeap, NUMBER, rec.n)
     IN  /\ Flash' = IF bad \/ toolarge THEN Flash ELSE ImageOf(arg, rec.n, WantedImage)
         /\ Workspace' = R.H.W
         /\ Freelist' = R.H.Freelist
         /\ Freespace' = R.H.Freespace
         /\ form' = IF R.ok THEN R.ptr ELSE NULL
         /\ GCStack' = IF R.ok THEN GCStack ELSE NULL
         /\ rec' = [NoRec EXCEPT !.op = "saveimage"]
  /\ UNCHANGED <<GlobalEnv, tee, env, MyCode, ops>>

\* the cells of the arena after the image is read over them
LoadedCells(W, cells) ==
  [i \in Cells |-> IF i + 1 <= Len(cells) THEN cells[i + 1] ELSE W[i]]

\* (mutant) loadimage reads the roots before it tests the cell count
LoadImageRootsFirst ==
  /\ Idle
  /\ env = NULL
  /\ IF Flash.imagesize = 0 \/ Flash.imagesize = Word16 - 1
       THEN /\ GlobalEnv' = Flash.GlobalEnv
            /\ GCStack' = NULL
            /\ form' = NULL
            /\ rec' = [NoRec EXCEPT !.op = "noimage", !.W = Workspace, !.ge = GlobalEnv,
                                    !.gs = GCStack]
            /\ UNCHANGED <<Workspace, Freelist, Freespace, MyCode>>
       ELSE \E H \in {gc(LoadedCells(Workspace, Flash.cells), Flash.GlobalEnv,
                          Flash.GCStack, NULL, NULL)} :
                /\ Workspace' = H.W
                /\ Freelist' = H.Freelist
                /\ Freespace' = H.Freespace
                /\ GlobalEnv' = Flash.GlobalEnv
                /\ GCStack' = Flash.GCStack
                /\ MyCode' = Flash.code
                /\ form' = NULL
                /\ rec' = [NoRec EXCEPT !.op = "loadimage", !.n = Flash.imagesize]
  /\ UNCHANGED <<tee, env, Flash, ops>>

\* loadimage: "no saved image" (errorend clears GCStack), or the roots, the
\* machine code and the cells read back, then gc(NULL, NULL)
LoadImage ==
  /\ Idle
  /\ env = NULL
  /\ IF Flash.imagesize = 0 \/ Flash.imagesize = Word16 - 1
       THEN /\ GCStack' = NULL
            /\ form' = NULL
            /\ rec' = [NoRec EXCEPT !.op = "noimage", !.W = Workspace, !.ge = GlobalEnv,
                                    !.gs = GCStack]
            /\ UNCHANGED <<Workspace, Freelist, Freespace, GlobalEnv, MyCode>>
       ELSE \E H \in {gc(LoadedCells(Workspace, Flash.cells), Flash.GlobalEnv,
                          Flash.GCStack, NULL, NULL)} :
                /\ Workspace' = H.W
                /\ Freelist' = H.Freelist
                /\ Freespace' = H.Freespace
                /\ GlobalEnv' = Flash.GlobalEnv
                /\ GCStack' = Flash.GCStack
                /\ MyCode' = Flash.code
                /\ form' = NULL
                /\ rec' = [NoRec EXCEPT !.op = "loadimage", !.n = Flash.imagesize]
  /\ UNCHANGED <<tee, env, Flash, ops>>

\* fn_loadimage: number(loadimage(args))
LoadReturn ==
  /\ rec.op = "loadimage"
  /\ EvalIdle
  /\ LET R == TryCell(CurHeap, NUMBER, rec.n)
     IN  /\ Workspace' = R.H.W
         /\ Freelist' = R.H.Freelist
         /\ Freespace' = R.H.Freespace
         /\ form' = IF R.ok THEN R.ptr ELSE NULL
         /\ GCStack' = IF R.ok THEN GCStack ELSE NULL
  /\ rec' = [NoRec EXCEPT !.op = "loaded"]
  /\ UNCHANGED <<GlobalEnv, tee, env, Flash, MyCode, ops>>

ImageNext ==
  \/ NewScalar \/ NewSymbol \/ NewCons \/ NewString
  \/ NewLongSymbol \/ NewArray \/ Protect \/ Unprotect \/ Defvar
  \/ Descend \/ Rplacd
  \/ SaveCompact \/ SaveWrite \/ LoadImage \/ LoadReturn

SpecImage == Init /\ [][ImageNext]_vars

(* ------------------------------------------------------------------ *)
(* Claims about the collector, the compactor and the image             *)
(* ------------------------------------------------------------------ *)

Injective(f, S) == \A a \in S, b \in S : f[a] = f[b] => a = b

\* C1: GC soundness. After gc(form, env) every cell that was reachable from
\* tee, GlobalEnv, GCStack, form and env before the call is off the free list
\* and holds the same two words as before, and every cell that was not
\* reachable from them is on the free list.
C1_GcSound ==
  rec.op = "gc" =>
    LET live == Reach(rec.W, {tee, rec.ge, rec.gs, rec.f, rec.e})
    IN  \A i \in Cells :
          IF i \in live
            THEN i \notin OnFreeList /\ Workspace[i] = rec.W[i]
            ELSE i \in OnFreeList

\* a collection that kept a string with its chain and freed a used cell
C1_Witness ==
  /\ rec.op = "gc"
  /\ \E nd \in ReachNodes(rec.W, {tee, rec.ge, rec.gs, rec.f, rec.e}) : nd[2] = "chain"
  /\ \E i \in Cells : rec.W[i].car # NULL /\ i \in OnFreeList

\* the graph reachable from the roots in rec.W is found again, cell by cell,
\* at the places fwd names, with every pointer redirected and no payload changed
SameGraph(roots) ==
  LET nodes == ReachNodes(rec.W, roots)
  IN  /\ Injective(rec.fwd, {nd[1] : nd \in nodes})
      /\ \A nd \in nodes : Workspace[rec.fwd[nd[1]]] = Relocated(rec.W, rec.fwd, nd)

\* C2: compaction preserves the object graph. After compactimage the structure
\* reachable from GlobalEnv, GCStack and the root argument is the one reachable
\* before, every pointer to a moved cell (in cells and in the three roots) is
\* the cell's new address, and every payload is unchanged.  Stated for a root
\* argument that is nil or a value the global roots already hold.
C2_CompactPreserves ==
  (rec.op = "compactimage" /\ (rec.f = NULL \/ Idx(rec.f) \in Reach(rec.W, {rec.ge, rec.gs}))) =>
    /\ GlobalEnv = Moved(rec.fwd, rec.ge)
    /\ GCStack = Moved(rec.fwd, rec.gs)
    /\ rec.arg = Moved(rec.fwd, rec.f)
    /\ SameGraph({rec.ge, rec.gs, rec.f})

\* C3: after compactimage returns n the cells [0, n) are exactly the live
\* cells and every cell at an index >= n is on the free list.
C3_DensePrefix ==
  rec.op = "compactimage" =>
    /\ 0 .. (rec.n - 1) = Reach(Workspace, {tee, GlobalEnv, GCStack})
    /\ \A i \in Cells : i >= rec.n => i \in OnFreeList

\* C4: the count compactimage returns, called with root cell R, is the number
\* of cells reachable from R, GlobalEnv and GCStack before the compaction (tee,
\* a root of every mark phase, counted with them), whenever the arena has a
\* free cell left for the scan to stop at.
C4_CountOfArgRoots ==
  rec.op = "compactimage" =>
    LET k == Cardinality(Reach(rec.W, {tee, rec.f, rec.ge, rec.gs}))
    IN  k < WORKSPACESIZE => rec.n = k

\* C5: persistence round trip. After save-image, further allocation and
\* mutation, and load-image, GlobalEnv and GCStack lead to the structure they
\* led to when the image was saved.
C5_RoundTrip ==
  rec.op = "loadimage" =>
    /\ GlobalEnv = Flash.want.ge
    /\ GCStack = Flash.want.gs
    /\ \A x \in Flash.want.cells : Workspace[x[1]] = x[2]

(* ------------------------------------------------------------------ *)
(* Allocate-and-discard rounds under eval's collection trigger         *)
(* ------------------------------------------------------------------ *)

\* eval collects when Freespace <= WORKSPACESIZE>>4
GcThreshold == WORKSPACESIZE \div 16

\* the cells in use that the program still holds
Held == Reach(Workspace, {tee, GlobalEnv, GCStack, form, env})

\* One evaluation that allocates: eval's entry (line 5491) collects when the
\* free space is at the threshold, then the evaluated call conses a cell onto
\* the list held by form, GCStack or GlobalEnv.  The rounds allocate fewer
\* cells than the arena has: a cell is requested only while one is not held.
EvalCons ==
  /\ Idle
  /\ Cardinality(Held) < WORKSPACESIZE
  /\ \E H0 \in {IF Freespace <= GcThreshold
                  THEN gc(Workspace, GlobalEnv, GCStack, form, env)
                  ELSE CurHeap} :
     \E root \in {"form", "GCStack", "GlobalEnv"} :
     \E R \in {TryCell(H0, tee, CASE root = "form" -> form
                                  [] root = "GCStack" -> GCStack
                                  [] OTHER -> GlobalEnv)} :
       /\ Workspace' = R.H.W
       /\ Freelist' = R.H.Freelist
       /\ Freespace' = R.H.Freespace
       /\ form' = IF ~R.ok THEN NULL ELSE IF root = "form" THEN R.ptr ELSE form
       /\ GCStack' = IF ~R.ok THEN NULL ELSE IF root = "GCStack" THEN R.ptr ELSE GCStack
       /\ GlobalEnv' = IF R.ok /\ root = "GlobalEnv" THEN R.ptr ELSE GlobalEnv
       /\ rec' = IF ~R.ok THEN [NoRec EXCEPT !.op = "noroom"]
                 ELSE IF Freespace <= GcThreshold
                   THEN [NoRec EXCEPT !.op = "gc", !.W = Workspace, !.ge = GlobalEnv,
                                      !.gs = GCStack, !.f = form, !.e = env]
                 ELSE NoRec
  /\ UNCHANGED <<tee, env, Flash, MyCode, ops>>

\* the round ends: every root to the allocated cells is dropped
DropRoots ==
  /\ Idle
  /\ form' = NULL
  /\ GCStack' = NULL
  /\ GlobalEnv' = NULL
  /\ rec' = NoRec
  /\ UNCHANGED <<Workspace, Freelist, Freespace, tee, env, Flash, MyCode, ops>>

\* one root is dropped (unprotect, the end of a let, makunbound)
DropOne ==
  /\ Idle
  /\ \E root \in {"form", "GCStack", "GlobalEnv"} :
       /\ form' = IF root = "form" THEN NULL ELSE form
       /\ GCStack' = IF root = "GCStack" /\ GCStack # NULL THEN cdr(Workspace, GCStack) ELSE GCStack
       /\ GlobalEnv' = IF root = "GlobalEnv" /\ GlobalEnv # NULL THEN cdr(Workspace, GlobalEnv) ELSE GlobalEnv
  /\ rec' = NoRec
  /\ UNCHANGED <<Workspace, Freelist, Freespace, tee, env, Flash, MyCode, ops>>

LiveNext == EvalCons \/ DropRoots \/ DropOne

SpecLive == Init /\ [][LiveNext]_vars

\* C6: GC liveness. Rounds that allocate fewer cells than the arena has and then
\* drop every root to them never raise 'no room', the collection of eval's
\* entry running before the free list is exhausted.
C6_NeverNoRoom == rec.op # "noroom"

\* a collection at an exhausted free list gave back the cells of earlier rounds
C6_Witness ==
  /\ rec.op = "gc"
  /\ \A i \in Cells : rec.W[i].car # NULL
  /\ Freespace >= WORKSPACESIZE - 3

(* ------------------------------------------------------------------ *)
(* The evaluator: error handlers, flags and the raw keyboard           *)
(* ------------------------------------------------------------------ *)
\* The text of the program is not kept in the arena: a form is known by what
\* its evaluation does, chosen when eval meets it.  The cells the evaluation
\* itself makes (the argument list, the protection stack, results) are real.

MaxDepth == 2   \* nested evals the C stack has room for
MaxForms == 2   \* forms in a body
MaxArgs == 2    \* arguments of a call
MaxRaw == 2     \* with-kb-raw is entered while KybdRawMode is below it

QUOTE == 15
ESC == 27
Keys == {ESC, 97}
Fns == {"plain", "return", "readchar"}

setflag(F, x) == F \cup {x}
clrflag(F, x) == F \ {x}
tstflag(F, x) == x \in F

\* one C function waiting for a nested eval: its locals, and (history) rf,
\* whether RETURNFLAG was set when the cleanup forms of an unwind-protect began
Frame(k) ==
  [k |-> k, fn |-> "", todo |-> 0, n |-> 0, head |-> NULL, tail |-> NULL,
   phase |-> "", sig |-> FALSE, result |-> NULL, gcs |-> NULL, prev |-> 0,
   muffled |-> FALSE, rf |-> FALSE]

Top == stack[Len(stack)]
Below == SubSeq(stack, 1, Len(stack) - 1)
SetTop(F) == [stack EXCEPT ![Len(stack)] = F]

SetHeap(H) ==
  /\ Workspace' = H.W
  /\ Freelist' = H.Freelist
  /\ Freespace' = H.Freespace

HeapRest == UNCHANGED <<GlobalEnv, tee, form, env, Flash, MyCode, rec, ops, BreakLevel, lispvars, utilvars>>
KbdSame == UNCHANGED <<KybdRawMode, WritePtr, KybdBuf>>

\* errorend(): GCStack = NULL; longjmp(*handler, 1)
errorend(H) ==
  /\ SetHeap(H)
  /\ GCStack' = NULL
  /\ ctl' = Ctl("throw")

\* quote(arg): cons(bsymbol(QUOTE), cons(arg, NULL)), the two arguments of the
\* outer cons evaluated in either order
quote(H, arg, symfirst) ==
  IF symfirst
    THEN LET S == bsymbol(H, QUOTE) IN
         IF ~S.ok THEN S
         ELSE LET C == TryCell(S.H, arg, NULL) IN
              IF ~C.ok THEN C ELSE TryCell(C.H, S.ptr, C.ptr)
    ELSE LET C == TryCell(H, arg, NULL) IN
         IF ~C.ok THEN C
         ELSE LET S == bsymbol(C.H, QUOTE) IN
              IF ~S.ok THEN S ELSE TryCell(S.H, S.ptr, C.ptr)

\* repl: gc(NULL, env), read a line, protect(line), eval(line, env)
ReplRead ==
  /\ ctl.m = "prompt"
  /\ \E H0 \in {gc(Workspace, GlobalEnv, GCStack, NULL, NULL)} :
     \E P \in {TryCell(H0, tee, GCStack)} :
       IF P.ok
         THEN /\ SetHeap(P.H)
              /\ GCStack' = P.ptr
              /\ ctl' = Ctl("eval")
         ELSE errorend(P.H)
  /\ UNCHANGED stack
  /\ evrec' = NoEv
  /\ HeapRest /\ KbdSame /\ UNCHANGED <<handler, Flags>>

\* eval's entry: the heap after "if (Freespace <= WORKSPACESIZE>>4) gc(form, env)"
EntryHeap ==
  IF Freespace <= GcThreshold
    THEN gc(Workspace, GlobalEnv, GCStack, ctl.form, NULL)
    ELSE CurHeap

\* eval passes its entry checks
Enters == ctl.m = "eval" /\ Len(stack) <= MaxDepth /\ ~tstflag(Flags, "ESCAPE")

\* the stack check of eval fails: error2("stack overflow")
EvalOverflow ==
  /\ ctl.m = "eval"
  /\ Len(stack) > MaxDepth
  /\ errorend(CurHeap)
  /\ evrec' = NoEv
  /\ HeapRest /\ KbdSame /\ UNCHANGED <<stack, handler, Flags>>

\* if (tstflag(ESCAPE)) { clrflag(ESCAPE); error2("escape!"); }
EvalEscape ==
  /\ ctl.m = "eval"
  /\ Len(stack) <= MaxDepth
  /\ tstflag(Flags, "ESCAPE")
  /\ errorend(EntryHeap)
  /\ Flags' = clrflag(Flags, "ESCAPE")
  /\ evrec' = NoEv
  /\ HeapRest /\ KbdSame /\ UNCHANGED <<stack, handler>>

\* a form that raises an error: (error ...), an undefined symbol, '~' on the
\* serial line in testescape
EvalError ==
  /\ Enters
  /\ ctl.form = NULL
  /\ errorend(EntryHeap)
  /\ evrec' = NoEv
  /\ HeapRest /\ KbdSame /\ UNCHANGED <<stack, handler, Flags>>

\* nil, a constant, a symbol with a value: eval returns without a nested eval
EvalAtom ==
  /\ Enters
  /\ ctl.form = NULL
  /\ SetHeap(EntryHeap)
  /\ \E v \in {NULL, tee} : ctl' = [Ctl("ret") EXCEPT !.val = v]
  /\ evrec' = NoEv
  /\ HeapRest /\ KbdSame /\ UNCHANGED <<GCStack, stack, handler, Flags>>

\* (quote x) built by tf_progn: the value is x
EvalQuoted ==
  /\ Enters
  /\ ctl.form # NULL
  /\ \E H0 \in {EntryHeap} :
       /\ SetHeap(H0)
       /\ ctl' = [Ctl("ret") EXCEPT !.val = car(H0.W, cdr(H0.W, ctl.form))]
  /\ evrec' = NoEv
  /\ HeapRest /\ KbdSame /\ UNCHANGED <<GCStack, stack, handler, Flags>>

\* a call of a builtin function: head = cons(eval(fname), NULL); protect(head)
EvalCall ==
  /\ Enters
  /\ ctl.form = NULL
  /\ \E fn \in Fns, n \in 0..MaxArgs :
     \E H1 \in {TryCell(EntryHeap, tee, NULL)} :
     \E H2 \in {IF H1.ok THEN TryCell(H1.H, H1.ptr, GCStack) ELSE H1} :
       IF H2.ok
         THEN /\ SetHeap(H2.H)
              /\ GCStack' = H2.ptr
              /\ stack' = Append(stack, [Frame("call") EXCEPT !.fn = fn, !.todo = n, !.n = n,
                                                             !.head = H1.ptr, !.tail = H1.ptr])
              /\ ctl' = IF n = 0 THEN Ctl("apply") ELSE Ctl("eval")
         ELSE errorend(H2.H) /\ UNCHANGED stack
  /\ evrec' = NoEv
  /\ HeapRest /\ KbdSame /\ UNCHANGED <<handler, Flags>>

\* sp_unwindprotect up to the eval of the protected form
EvalUnwindProtect ==
  /\ Enters
  /\ ctl.form = NULL
  /\ SetHeap(EntryHeap)
  /\ \E n \in 0..MaxForms :
       stack' = Append(stack, [Frame("unwindprotect") EXCEPT !.phase = "form", !.todo = n, !.n = n,
                                                            !.gcs = GCStack, !.prev = handler])
  /\ handler' = Len(stack) + 1
  /\ ctl' = Ctl("eval")
  /\ evrec' = NoEv
  /\ HeapRest /\ KbdSame /\ UNCHANGED <<GCStack, Flags>>

\* sp_ignoreerrors up to the eval of the first body form
EvalIgnoreErrors ==
  /\ Enters
  /\ ctl.form = NULL
  /\ SetHeap(EntryHeap)
  /\ \E n \in 1..MaxForms :
       stack' = Append(stack, [Frame("ignoreerrors") EXCEPT !.todo = n, !.n = n, !.gcs = GCStack,
                                 !.prev = handler, !.muffled = tstflag(Flags, "MUFFLEERRORS")])
  /\ handler' = Len(stack) + 1
  /\ Flags' = setflag(Flags, "MUFFLEERRORS")
  /\ ctl' = Ctl("eval")
  /\ evrec' = NoEv
  /\ HeapRest /\ KbdSame /\ UNCHANGED GCStack

\* sp_withkbraw up to the first eval inside tf_progn
EvalWithKbRaw ==
  /\ Enters
  /\ ctl.form = NULL
  /\ KybdRawMode < MaxRaw
  /\ SetHeap(EntryHeap)
  /\ \E n \in 1..MaxForms :
       stack' = Append(stack, [Frame("withkbraw") EXCEPT !.todo = n, !.n = n])
  /\ WritePtr' = IF KybdRawMode = 0 THEN 0 ELSE WritePtr
  /\ KybdRawMode' = (KybdRawMode + 1) % 256
  /\ ctl' = Ctl("eval")
  /\ evrec' = NoEv
  /\ HeapRest /\ UNCHANGED <<GCStack, handler, Flags, KybdBuf>>

\* unprotect() and return from eval's call of a builtin function
CallDone(H, v) ==
  /\ SetHeap(H)
  /\ GCStack' = IF GCStack = NULL THEN NULL ELSE cdr(H.W, GCStack)
  /\ stack' = Below
  /\ ctl' = [Ctl("ret") EXCEPT !.val = v]

\* repl: the line's value is printed, unprotect(), next prompt
RetRepl ==
  /\ ctl.m = "ret"
  /\ (IF stack = <<>> THEN TRUE ELSE Top.k = "break")
  /\ GCStack' = IF GCStack = NULL THEN NULL ELSE cdr(Workspace, GCStack)
  /\ ctl' = Ctl("prompt")
  /\ evrec' = NoEv
  /\ HeapRest /\ KbdSame /\ UNCHANGED <<Workspace, Freelist, Freespace, stack, handler, Flags>>

\* an argument's value arrives: obj = cons(value, NULL); cdr(tail) = obj
RetArg ==
  /\ ctl.m = "ret"
  /\ stack # <<>>
  /\ Top.k = "call"
  /\ \E C \in {TryCell(CurHeap, ctl.val, NULL)} :
       IF C.ok
         THEN /\ SetHeap(Heap(SetCdr(C.H.W, Top.tail, C.ptr), C.H.Freelist, C.H.Freespace))
              /\ stack' = SetTop([Top EXCEPT !.tail = C.ptr, !.todo = Top.todo - 1])
              /\ ctl' = IF Top.todo = 1 THEN Ctl("apply") ELSE Ctl("eval")
              /\ UNCHANGED GCStack
         ELSE errorend(C.H) /\ UNCHANGED stack
  /\ evrec' = NoEv
  /\ HeapRest /\ KbdSame /\ UNCHANGED <<handler, Flags>>

\* the end of sp_unwindprotect: return the result or pass the error on
UnwindDone(F, left) ==
  /\ evrec' = [NoEv EXCEPT !.op = "unwindprotect", !.left = left, !.sig = F.sig, !.rf = F.rf]
  /\ IF F.sig
       THEN GCStack' = NULL /\ ctl' = Ctl("throw")
       ELSE UNCHANGED GCStack /\ ctl' = [Ctl("ret") EXCEPT !.val = F.result]

\* the protected form returned: handler = previous_handler, on to the cleanup forms
RetProtected ==
  /\ ctl.m = "ret"
  /\ stack # <<>>
  /\ Top.k = "unwindprotect"
  /\ Top.phase = "form"
  /\ handler' = Top.prev
  /\ LET F == [Top EXCEPT !.phase = "cleanup", !.result = ctl.val,
                          !.rf = tstflag(Flags, "RETURNFLAG")]
     IN  IF F.todo = 0
           THEN UnwindDone(F, 0) /\ stack' = Below
           ELSE /\ stack' = SetTop(F)
                /\ ctl' = Ctl("eval")
                /\ evrec' = NoEv
                /\ UNCHANGED GCStack
  /\ HeapRest /\ KbdSame /\ UNCHANGED <<Workspace, Freelist, Freespace, Flags>>

\* a cleanup form returned: if (tstflag(RETURNFLAG)) break; else the next one
RetCleanup ==
  /\ ctl.m = "ret"
  /\ stack # <<>>
  /\ Top.k = "unwindprotect"
  /\ Top.phase = "cleanup"
  /\ IF tstflag(Flags, "RETURNFLAG") \/ Top.todo = 1
       THEN UnwindDone(Top, Top.todo - 1) /\ stack' = Below
       ELSE /\ stack' = SetTop([Top EXCEPT !.todo = Top.todo - 1])
            /\ ctl' = Ctl("eval")
            /\ evrec' = NoEv
            /\ UNCHANGED GCStack
  /\ HeapRest /\ KbdSame /\ UNCHANGED <<Workspace, Freelist, Freespace, handler, Flags>>

\* (mutant) sp_ignoreerrors returns normally without handler = previous_handler
RetBodyKeepHandler ==
  /\ ctl.m = "ret"
  /\ stack # <<>>
  /\ Top.k = "ignoreerrors"
  /\ IF tstflag(Flags, "RETURNFLAG") \/ Top.todo = 1
       THEN /\ stack' = Below
            /\ UNCHANGED handler
            /\ Flags' = IF Top.muffled THEN Flags ELSE clrflag(Flags, "MUFFLEERRORS")
            /\ ctl' = [Ctl("ret") EXCEPT !.val = ctl.val]
            /\ evrec' = [NoEv EXCEPT !.op = "ignoreerrors", !.out = "returned", !.val = ctl.val,
                                     !.gcs = Top.gcs]
       ELSE /\ stack' = SetTop([Top EXCEPT !.todo = Top.todo - 1])
            /\ ctl' = Ctl("eval")
            /\ evrec' = NoEv
            /\ UNCHANGED <<handler, Flags>>
  /\ HeapRest /\ KbdSame /\ UNCHANGED <<Workspace, Freelist, Freespace, GCStack>>

\* a body form of ignore-errors returned: break on RETURNFLAG, else the next
\* one; after the last handler = previous_handler, MUFFLEERRORS as found
RetBody ==
  /\ ctl.m = "ret"
  /\ stack # <<>>
  /\ Top.k = "ignoreerrors"
  /\ IF tstflag(Flags, "RETURNFLAG") \/ Top.todo = 1
       THEN /\ stack' = Below
            /\ handler' = Top.prev
            /\ Flags' = IF Top.muffled THEN Flags ELSE clrflag(Flags, "MUFFLEERRORS")
            /\ ctl' = [Ctl("ret") EXCEPT !.val = ctl.val]
            /\ evrec' = [NoEv EXCEPT !.op = "ignoreerrors", !.out = "returned", !.val = ctl.val,
                                     !.gcs = Top.gcs]
       ELSE /\ stack' = SetTop([Top EXCEPT !.todo = Top.todo - 1])
            /\ ctl' = Ctl("eval")
            /\ evrec' = NoEv
            /\ UNCHANGED <<handler, Flags>>
  /\ HeapRest /\ KbdSame /\ UNCHANGED <<Workspace, Freelist, Freespace, GCStack>>

\* inside with-kb-raw's tf_progn a form that is not the last returned: with
\* RETURNFLAG set the progn ends with quote(result), else the next form
RetRawInner ==
  /\ ctl.m = "ret"
  /\ stack # <<>>
  /\ Top.k = "withkbraw"
  /\ Top.todo > 1
  /\ IF tstflag(Flags, "RETURNFLAG")
       THEN \E symfirst \in BOOLEAN :
            \E Q \in {quote(CurHeap, ctl.val, symfirst)} :
              IF Q.ok
                THEN /\ SetHeap(Q.H)
                     /\ stack' = SetTop([Top EXCEPT !.todo = 1])
                     /\ ctl' = [Ctl("eval") EXCEPT !.form = Q.ptr]
                     /\ UNCHANGED GCStack
                ELSE errorend(Q.H) /\ UNCHANGED stack
       ELSE /\ stack' = SetTop([Top EXCEPT !.todo = Top.todo - 1])
            /\ ctl' = Ctl("eval")
            /\ UNCHANGED <<Workspace, Freelist, Freespace, GCStack>>
  /\ evrec' = NoEv
  /\ HeapRest /\ KbdSame /\ UNCHANGED <<handler, Flags>>

\* the eval of tf_progn's result returned: KybdRawMode--, the buffer reset at 0
RetRawLast ==
  /\ ctl.m = "ret"
  /\ stack # <<>>
  /\ Top.k = "withkbraw"
  /\ Top.todo = 1
  /\ KybdRawMode' = (KybdRawMode + 255) % 256
  /\ WritePtr' = IF KybdRawMode' = 0 THEN 0 ELSE WritePtr
  /\ stack' = Below
  /\ ctl' = [Ctl("ret") EXCEPT !.val = ctl.val]
  /\ evrec' = [NoEv EXCEPT !.op = "withkbraw", !.val = ctl.val]
  /\ HeapRest /\ UNCHANGED <<Workspace, Freelist, Freespace, GCStack, handler, Flags, KybdBuf>>

\* a builtin without an effect on the flags or the keyboard returns nil
ApplyPlain ==
  /\ ctl.m = "apply"
  /\ Top.fn = "plain"
  /\ CallDone(CurHeap, NULL)
  /\ evrec' = NoEv
  /\ HeapRest /\ KbdSame /\ UNCHANGED <<handler, Flags>>

\* fn_return (at most one argument, checkminmax): setflag(RETURNFLAG); nil or
\* the first argument
ApplyReturn ==
  /\ ctl.m = "apply"
  /\ Top.fn = "return"
  /\ IF Top.n > 1
       THEN errorend(CurHeap) /\ UNCHANGED <<stack, Flags>>
       ELSE /\ Flags' = setflag(Flags, "RETURNFLAG")
            /\ CallDone(CurHeap, IF Top.n = 0 THEN NULL
                                 ELSE car(Workspace, cdr(Workspace, Top.head)))
  /\ evrec' = NoEv
  /\ HeapRest /\ KbdSame /\ UNCHANGED handler

\* fn_readchar up to its loop: too many arguments (checkminmax), not in raw
\* mode, an argument that is not an integer
ApplyReadChar ==
  /\ ctl.m = "apply"
  /\ Top.fn = "readchar"
  /\ \E isint \in BOOLEAN :
       IF Top.n > 1 \/ KybdRawMode = 0 \/ (Top.n = 1 /\ ~isint)
         THEN errorend(CurHeap)
         ELSE /\ ctl' = Ctl("readchar")
              /\ UNCHANGED <<Workspace, Freelist, Freespace, GCStack>>
  /\ evrec' = NoEv
  /\ HeapRest /\ KbdSame /\ UNCHANGED <<stack, handler, Flags>>

\* the loop of fn_readchar ends: max-millis have passed, the result is nil
ReadCharExpire ==
  /\ ctl.m = "readchar"
  /\ Top.n = 1
  /\ CallDone(CurHeap, NULL)
  /\ evrec' = [NoEv EXCEPT !.op = "readchar", !.out = "nil", !.left = WritePtr]
  /\ HeapRest /\ KbdSame /\ UNCHANGED <<handler, Flags>>

\* GetRawKey: if (WritePtr > 0), and the load of WritePtr-- 
GetRawKeyLoad ==
  /\ ctl.m = "readchar"
  /\ WritePtr > 0
  /\ ctl' = [Ctl("getkey-store") EXCEPT !.w = WritePtr, !.oldest = KybdBuf[0]]
  /\ evrec' = NoEv
  /\ UNCHANGED <<heapvars, stack, handler, Flags, KybdRawMode, WritePtr, KybdBuf, BreakLevel, lispvars, utilvars>>

\* GetRawKey: the store of WritePtr--
GetRawKeyStore ==
  /\ ctl.m = "getkey-store"
  /\ WritePtr' = ctl.w - 1
  /\ ctl' = [ctl EXCEPT !.m = "getkey-read"]
  /\ evrec' = NoEv
  /\ UNCHANGED <<heapvars, stack, handler, Flags, KybdRawMode, KybdBuf, BreakLevel, lispvars, utilvars>>

\* GetRawKey: return KybdBuf[WritePtr] (a read behind the buffer gives any
\* byte); fn_readchar returns character(c) unless c is 0
GetRawKeyRead ==
  /\ ctl.m = "getkey-read"
  /\ \E c \in (IF WritePtr < KybdBufSize THEN {KybdBuf[WritePtr]} ELSE Keys \cup {0}) :
       IF c = 0
         THEN /\ ctl' = Ctl("readchar")
              /\ evrec' = NoEv
              /\ UNCHANGED <<Workspace, Freelist, Freespace, GCStack, stack>>
         ELSE \E R \in {TryCell(CurHeap, CHARACTER, c)} :
                IF R.ok
                  THEN /\ CallDone(R.H, R.ptr)
                       /\ evrec' = [NoEv EXCEPT !.op = "readchar", !.out = "char", !.got = c,
                                                !.oldest = ctl.oldest, !.val = R.ptr]
                  ELSE errorend(R.H) /\ evrec' = NoEv /\ UNCHANGED stack
  /\ HeapRest /\ KbdSame /\ UNCHANGED <<handler, Flags>>

\* (mutant) ulisperror leaves BreakLevel as it is
LandTopKeepLevel ==
  /\ ctl.m = "throw"
  /\ handler = 0
  /\ stack' = <<>>
  /\ Flags' = clrflag(Flags, "NOESC")
  /\ ctl' = Ctl("prompt")
  /\ evrec' = [NoEv EXCEPT !.op = "landtop", !.level = BreakLevel]
  /\ KbdSame /\ UNCHANGED <<heapvars, handler, BreakLevel, lispvars, utilvars>>

\* longjmp to toplevel_handler: loop() calls ulisperror(), which clears NOESC
\* and BreakLevel, and repl(NULL)
LandTop ==
  /\ ctl.m = "throw"
  /\ handler = 0
  /\ stack' = <<>>
  /\ Flags' = clrflag(Flags, "NOESC")
  /\ BreakLevel' = 0
  /\ ctl' = Ctl("prompt")
  /\ evrec' = [NoEv EXCEPT !.op = "landtop", !.level = BreakLevel]
  /\ KbdSame /\ UNCHANGED <<heapvars, handler, lispvars, utilvars>>

\* longjmp to the dynamic_handler of an unwind-protect: GCStack =
\* current_GCStack, signaled = true, handler = previous_handler, the cleanup forms
LandUnwind ==
  /\ ctl.m = "throw"
  /\ handler > 0
  /\ stack[handler].k = "unwindprotect"
  /\ handler' = stack[handler].prev
  /\ LET F == [stack[handler] EXCEPT !.phase = "cleanup", !.sig = TRUE,
                                     !.rf = tstflag(Flags, "RETURNFLAG")]
     IN  IF F.todo = 0
           THEN UnwindDone(F, 0) /\ stack' = SubSeq(stack, 1, handler - 1)
           ELSE /\ stack' = Append(SubSeq(stack, 1, handler - 1), F)
                /\ GCStack' = F.gcs
                /\ ctl' = Ctl("eval")
                /\ evrec' = NoEv
  /\ HeapRest /\ KbdSame /\ UNCHANGED <<Workspace, Freelist, Freespace, Flags>>

\* longjmp to the dynamic_handler of an ignore-errors: GCStack =
\* current_GCStack, handler = previous_handler, MUFFLEERRORS as found,
\* return bsymbol(NOTHING)
LandIgnore ==
  /\ ctl.m = "throw"
  /\ handler > 0
  /\ stack[handler].k = "ignoreerrors"
  /\ handler' = stack[handler].prev
  /\ Flags' = IF stack[handler].muffled THEN Flags ELSE clrflag(Flags, "MUFFLEERRORS")
  /\ \E S \in {bsymbol(CurHeap, NOTHING)} :
       IF S.ok
         THEN /\ SetHeap(S.H)
              /\ GCStack' = stack[handler].gcs
              /\ stack' = SubSeq(stack, 1, handler - 1)
              /\ ctl' = [Ctl("ret") EXCEPT !.val = S.ptr]
              /\ evrec' = [NoEv EXCEPT !.op = "ignoreerrors", !.sig = TRUE, !.out = "returned",
                                       !.val = S.ptr, !.gcs = stack[handler].gcs]
         ELSE /\ errorend(S.H)
              /\ stack' = SubSeq(stack, 1, handler - 1)
              /\ evrec' = [NoEv EXCEPT !.op = "ignoreerrors", !.sig = TRUE, !.out = "raised",
                                       !.gcs = stack[handler].gcs]
  /\ HeapRest /\ KbdSame

\* ProcessKey: Escape sets the flag, another key goes to the line buffer
ProcessKey(c) ==
  IF c = ESC
    THEN /\ Flags' = setflag(Flags, "ESCAPE")
         /\ UNCHANGED <<WritePtr, KybdBuf>>
    ELSE /\ IF WritePtr < KybdBufSize
              THEN KybdBuf' = [KybdBuf EXCEPT ![WritePtr] = c] /\ WritePtr' = WritePtr + 1
              ELSE UNCHANGED <<WritePtr, KybdBuf>>
         /\ UNCHANGED Flags

\* ProcessKeyRaw: the key goes to the buffer if there is room
ProcessKeyRaw(c) ==
  /\ IF WritePtr < KybdBufSize
       THEN KybdBuf' = [KybdBuf EXCEPT ![WritePtr] = c] /\ WritePtr' = WritePtr + 1
       ELSE UNCHANGED <<WritePtr, KybdBuf>>
  /\ UNCHANGED Flags

\* the keyboard interrupt finds a key pressed
KeyPress ==
  /\ \E c \in Keys : IF KybdRawMode # 0 THEN ProcessKeyRaw(c) ELSE ProcessKey(c)
  /\ UNCHANGED <<heapvars, stack, ctl, handler, KybdRawMode, BreakLevel, evrec, lispvars, utilvars>>

\* the evaluator with unwind-protect and ignore-errors, the keyboard in line mode
EvalNext ==
  \/ ReplRead \/ EvalOverflow \/ EvalEscape \/ EvalError \/ EvalAtom
  \/ EvalCall \/ EvalUnwindProtect \/ EvalIgnoreErrors
  \/ RetRepl \/ RetArg \/ RetProtected \/ RetCleanup \/ RetBody
  \/ ApplyPlain \/ ApplyReturn \/ ApplyReadChar
  \/ LandTop \/ LandUnwind \/ LandIgnore
  \/ KeyPress

SpecEval == Init /\ [][EvalNext]_vars

\* the evaluator with with-kb-raw, read-char and ignore-errors
KbdNext ==
  \/ ReplRead \/ EvalOverflow \/ EvalEscape \/ EvalError \/ EvalAtom \/ EvalQuoted
  \/ EvalCall \/ EvalIgnoreErrors \/ EvalWithKbRaw
  \/ RetRepl \/ RetArg \/ RetBody \/ RetRawInner \/ RetRawLast
  \/ ApplyPlain \/ ApplyReturn \/ ApplyReadChar \/ ReadCharExpire
  \/ GetRawKeyLoad \/ GetRawKeyStore \/ GetRawKeyRead
  \/ LandTop \/ LandIgnore
  \/ KeyPress

SpecKbd == Init /\ [][KbdNext]_vars

(* ------------------------------------------------------------------ *)
(* Claims about the error handlers and the raw keyboard                *)
(* ------------------------------------------------------------------ *)

\* C7: unwind-protect guarantees its cleanup forms. When sp_unwindprotect
\* ends, by returning the value of form1 or by passing the error of form1 on to
\* the enclosing handler, every cleanup form has been evaluated (unless a
\* cleanup form itself called return).
C7_CleanupsAllRun ==
  (evrec.op = "unwindprotect" /\ (evrec.rf \/ ~tstflag(Flags, "RETURNFLAG"))) => evrec.left = 0

\* C8: ignore-errors swallows an error raised in its body: the form returns
\* (no outer handler is entered), GCStack is the one of its entry and the value
\* is the symbol nothing; without an error the value is the last body form's.
C8_ErrorsSwallowed ==
  (evrec.op = "ignoreerrors" /\ evrec.sig) =>
     /\ evrec.out = "returned"
     /\ GCStack = evrec.gcs
     /\ handler <= Len(stack)
     /\ evrec.val # NULL
     /\ Workspace[Idx(evrec.val)] = [car |-> SYMBOL, cdr |-> twist(NOTHING + BUILTINS)]

\* C9: raw keyboard mode is on only while the body of a with-kb-raw is under
\* evaluation: with no with-kb-raw waiting for its body KybdRawMode is 0 and the
\* interrupt hands the keys to ProcessKey.
C9_RawOnlyInBody ==
  KybdRawMode # 0 => \E i \in 1..Len(stack) : stack[i].k = "withkbraw"

\* C10: read-char returns the keys pressed in raw mode in the order they were
\* pressed: the character it returns is the oldest key not yet read; nil is
\* returned only by a call with max-millis.
C10_OldestFirst ==
  evrec.op = "readchar" =>
    IF evrec.out = "char" THEN evrec.got = evrec.oldest ELSE evrec.out = "nil"

(* ------------------------------------------------------------------ *)
(* The evaluator over S-expressions                                     *)
(*                                                                     *)
(* eval(), closure() and apply() with the forms written out.  An object *)
(* is a value here: nil, a number, a symbol or a cons; the cells the    *)
(* program changes after sharing them, the (symbol . value) pairs of    *)
(* the environments, are numbered cells of the store `pairs`, and an    *)
(* environment is the list of its pair cells with 0 for the NULL entry  *)
(* that marks a frame.  The collector, the escape test and the flags    *)
(* are those of the sections above and take no part here.               *)
(* ------------------------------------------------------------------ *)

MaxNest == 4    \* nested evals the C stack has room for
MaxIter == 3    \* the argument the recursive functions are called with

INT_MAX == 32767
INT_MIN == -32768

Num(n) == [t |-> "num", n |-> n]
Sym(s) == [t |-> "sym", s |-> s]
Cons(a, d) == [t |-> "cons", a |-> a, d |-> d]
\* the list of pair cells a closure carries
EnvList(e) == [t |-> "env", e |-> e]

consp(x) == x.t = "cons"
symbolp(x) == x.t = "sym"
integerp(x) == x.t = "num"
first(x) == x.a
second(x) == x.d.a
cddr(x) == x.d.d

RECURSIVE List(_)
List(s) == IF s = <<>> THEN nil ELSE Cons(Head(s), List(Tail(s)))

RECURSIVE improperp(_)
improperp(x) == IF consp(x) THEN improperp(x.d) ELSE x.t # "nil"

RECURSIVE listlength(_)
listlength(x) == IF consp(x) THEN 1 + listlength(x.d) ELSE 0

\* the int of the AVR: 16 bits, two's complement
Int16(x) == ((x + 32768) % 65536) - 32768

toofewargs == "too few arguments"
toomanyargs == "too many arguments"

\* the minmax byte of a table entry: function type, minimum, maximum (7: any number)
Oct(a, b, c) == a * 64 + b * 8 + c

OTHER_FORMS == 0
TAIL_FORMS == 1
FUNCTIONS == 2
SPECIAL_FORMS == 3

\* the entries of lookup_table the forms below use
Table ==
  ("t" :> Oct(0, 0, 0)) @@ ("*features*" :> Oct(0, 0, 0)) @@
  ("&optional" :> Oct(0, 0, 0)) @@ ("&rest" :> Oct(0, 0, 0)) @@
  ("lambda" :> Oct(0, 1, 7)) @@ ("let" :> Oct(0, 1, 7)) @@ ("let*" :> Oct(0, 1, 7)) @@
  ("closure" :> Oct(0, 1, 7)) @@
  ("quote" :> Oct(3, 1, 1)) @@ ("defun" :> Oct(3, 2, 7)) @@ ("defvar" :> Oct(3, 1, 3)) @@
  ("setq" :> Oct(3, 2, 7)) @@ ("trace" :> Oct(3, 0, 1)) @@
  ("progn" :> Oct(1, 0, 7)) @@ ("if" :> Oct(1, 2, 3)) @@
  ("car" :> Oct(2, 1, 1)) @@ ("funcall" :> Oct(2, 1, 7)) @@
  ("+" :> Oct(2, 0, 7)) @@ ("1-" :> Oct(2, 1, 1)) @@ ("=" :> Oct(2, 1, 7))

builtinp(name) == name \in DOMAIN Table
isbuiltin(x, name) == symbolp(x) /\ x.s = name

\* colonp: a long symbol whose first character is a colon
ColonNames == {":key"}
colonp(name) == name \in ColonNames

getminmax(name) == Table[name]

\* checkminmax: the error it raises, "" when it raises none
checkminmax(name, nargs) ==
  LET minmax == getminmax(name)
  IN  IF nargs < (minmax \div 8) % 8 THEN toofewargs
      ELSE IF minmax % 8 # 7 /\ nargs > minmax % 8 THEN toomanyargs
      ELSE ""

\* checkargs: listlength, then checkminmax
checkargs(name, args) ==
  IF improperp(args) THEN "not a proper list" ELSE checkminmax(name, listlength(args))

\* value: the first pair of the environment that binds the name, 0 when none does
RECURSIVE value(_, _, _)
value(n, e, P) ==
  IF e = <<>> THEN 0
  ELSE IF Head(e) # 0 /\ symbolp(P[Head(e)].var) /\ P[Head(e)].var.s = n THEN Head(e)
  ELSE value(n, Tail(e), P)

\* findpair: the local environment first, GlobalEnv second
findpair(var, e, G, P) ==
  LET pair == value(var.s, e, P)
  IN  IF pair = 0 THEN value(var.s, G, P) ELSE pair

\* features(): the list of the feature keywords
features == List(<<Sym(":arrays"), Sym(":doc"), Sym(":machine-code"), Sym(":error-handling")>>)

evalsymbolGlobalFirst(x, e, G, P) ==
  LET name == x.s
      loc == value(name, e, P)
      glo == value(name, G, P)
  IN  IF colonp(name) THEN [err |-> "", val |-> x]
      ELSE IF glo # 0 THEN [err |-> "", val |-> P[glo].val]
      ELSE IF loc # 0 THEN [err |-> "", val |-> P[loc].val]
      ELSE IF builtinp(name)
           THEN [err |-> "", val |-> IF name = "*features*" THEN features ELSE x]
      ELSE [err |-> "undefined", val |-> nil]

\* eval of a symbol: [err, val]
evalsymbol(x, e, G, P) ==
  LET name == x.s
      loc == value(name, e, P)
      glo == value(name, G, P)
  IN  IF colonp(name) THEN [err |-> "", val |-> x]
      ELSE IF loc # 0 THEN [err |-> "", val |-> P[loc].val]
      ELSE IF glo # 0 THEN [err |-> "", val |-> P[glo].val]
      ELSE IF builtinp(name)
           THEN [err |-> "", val |-> IF name = "*features*" THEN features ELSE x]
      ELSE [err |-> "undefined", val |-> nil]

\* fn_add: the sum of the arguments, every partial sum tested against the range
addoverflowHighOnly(result, temp) ==
  temp >= 1 /\ Int16(INT_MAX - temp) < result

\* the two tests under checkoverflow
addoverflow(result, temp) ==
  IF temp < 1 THEN Int16(INT_MIN - temp) > result
  ELSE Int16(INT_MAX - temp) < result

RECURSIVE fn_add(_, _)
fn_add(args, result) ==
  IF ~consp(args) THEN [err |-> "", val |-> Num(result)]
  ELSE IF ~integerp(first(args)) THEN [err |-> "argument is not an integer", val |-> nil]
  ELSE LET temp == first(args).n
       IN  IF addoverflow(result, temp)
           THEN [err |-> "arithmetic overflow", val |-> nil]
           ELSE fn_add(args.d, Int16(result + temp))

\* fn_oneminus
fn_oneminus(args) ==
  IF ~integerp(first(args)) THEN [err |-> "argument is not an integer", val |-> nil]
  ELSE IF first(args).n = INT_MIN THEN [err |-> "arithmetic overflow", val |-> nil]
  ELSE [err |-> "", val |-> Num(first(args).n - 1)]

\* compare(args, false, false, true) of fn_numeq
RECURSIVE compare(_, _)
compare(arg1, args) ==
  IF ~consp(args) THEN [err |-> "", val |-> Sym("t")]
  ELSE IF ~integerp(first(args)) THEN [err |-> "argument is not an integer", val |-> nil]
  ELSE IF arg1 # first(args).n THEN [err |-> "", val |-> nil]
  ELSE compare(first(args).n, args.d)

fn_numeq(args) ==
  IF ~integerp(first(args)) THEN [err |-> "argument is not an integer", val |-> nil]
  ELSE compare(first(args).n, args.d)

\* fn_car
fn_car(args) ==
  IF first(args).t \notin {"nil", "cons"} THEN [err |-> "can't take car", val |-> nil]
  ELSE [err |-> "", val |-> IF consp(first(args)) THEN first(args).a ELSE nil]

\* lookupfn(name)(args, env) of the functions that evaluate nothing
callfn(name, args) ==
  CASE name = "+" -> fn_add(args, 0)
    [] name = "1-" -> fn_oneminus(args)
    [] name = "=" -> fn_numeq(args)
    [] name = "car" -> fn_car(args)
    [] OTHER -> [err |-> "illegal function", val |-> nil]

Reverse(s) == [i \in 1 .. Len(s) |-> s[Len(s) + 1 - i]]

\* Dropframe: on a tail call the entries down to the last frame mark go, or
\* a frame mark is pushed
RECURSIVE popframe(_)
popframe(e) == IF e # <<>> /\ Head(e) # 0 THEN popframe(Tail(e)) ELSE e

dropframe(tc, e) ==
  IF tc = 0 THEN e
  ELSE IF e # <<>> /\ Head(e) = 0 THEN popframe(Tail(e))
  ELSE <<0>> \o e

\* closure: the parameters bound to the arguments, one new pair each
RECURSIVE bindparams(_, _, _, _, _)
bindparams(params, args, e, P, optional) ==
  LET var == first(params)
      Err(m) == [err |-> m, env |-> e, P |-> P]
      Bound(v, val, ps, as) ==
        bindparams(ps, as, <<Len(P) + 1>> \o e, Append(P, [var |-> v, val |-> val]), optional)
  IN  IF ~consp(params)
      THEN Err(IF args.t # "nil" THEN toomanyargs ELSE "")
      ELSE IF isbuiltin(var, "&optional") THEN bindparams(params.d, args, e, P, TRUE)
      ELSE IF consp(var)
           THEN IF ~optional THEN Err("invalid default value")
                ELSE IF ~consp(args) THEN Err("default value form")
                ELSE IF ~symbolp(first(var)) THEN Err("illegal optional parameter")
                ELSE Bound(first(var), first(args), params.d, args.d)
      ELSE IF ~symbolp(var) THEN Err("illegal function parameter")
      ELSE IF isbuiltin(var, "&rest")
           THEN IF ~consp(params.d) THEN Err("illegal function parameter")
                ELSE Bound(first(params.d), args, params.d.d, nil)
      ELSE IF ~consp(args)
           THEN IF optional THEN Bound(var, nil, params.d, args) ELSE Err(toofewargs)
      ELSE Bound(var, first(args), params.d, args.d)

\* (mutant) closure pushes the captured pairs in the order of the copy
closureKeepCopyOrder(tc, function, args, e, P) ==
  LET state == first(function)
      params == first(function.d)
      e1 == dropframe(tc, e)
      e2 == IF state.t = "env" THEN state.e \o e1 ELSE e1
      B == bindparams(params, args, e2, P, FALSE)
  IN  IF ~consp(function.d) THEN [err |-> "not a list", env |-> e, P |-> P, body |-> nil]
      ELSE IF params.t \notin {"nil", "cons"}
           THEN [err |-> "not a list", env |-> e, P |-> P, body |-> nil]
      ELSE IF B.err # "" THEN [err |-> B.err, env |-> e, P |-> P, body |-> nil]
      ELSE [err |-> "", env |-> IF tc # 0 THEN <<0>> \o B.env ELSE B.env,
            P |-> B.P, body |-> function.d.d]

\* closure(tc, name, function, args, &env): [err, env, P, body]; the body goes
\* to tf_progn
closure(tc, function, args, e, P) ==
  LET state == first(function)
      params == first(function.d)
      e1 == dropframe(tc, e)
      e2 == IF state.t = "env" THEN Reverse(state.e) \o e1 ELSE e1
      B == bindparams(params, args, e2, P, FALSE)
  IN  IF ~consp(function.d) THEN [err |-> "not a list", env |-> e, P |-> P, body |-> nil]
      ELSE IF params.t \notin {"nil", "cons"}
           THEN [err |-> "not a list", env |-> e, P |-> P, body |-> nil]
      ELSE IF B.err # "" THEN [err |-> B.err, env |-> e, P |-> P, body |-> nil]
      ELSE [err |-> "", env |-> IF tc # 0 THEN <<0>> \o B.env ELSE B.env,
            P |-> B.P, body |-> function.d.d]

\* tracing(name): the name is in one of the TRACEMAX slots
tracing(name) == \E i \in 1 .. TRACEMAX : TraceFn[i] = name

\* an activation of eval(form, env): its arguments, TC, and the locals of the
\* code it is in; pc is the place it waits or continues at
Act(f, e, tc) ==
  [pc |-> "EVAL", form |-> f, env |-> e, TC |-> tc, TCstart |-> 0, name |-> "",
   assigns |-> nil, newenv |-> <<>>, outer |-> <<>>, forms |-> nil, tcnext |-> 0,
   after |-> "goto", ienv |-> <<>>, head |-> <<>>, fname |-> nil, pair |-> 0, val |-> nil]

Cur == evals[Len(evals)]
Caller == evals[Len(evals) - 1]
Callers == SubSeq(evals, 1, Len(evals) - 1)
SetCur(a) == evals' = Callers \o <<a>>
Nest(a, f, e) == evals' = Callers \o <<a, Act(f, e, 0)>>
\* the nested eval has returned: the activation below it goes on
Resume(a) == evals' = SubSeq(evals, 1, Len(evals) - 2) \o <<a>>
Return(v) == SetCur([Cur EXCEPT !.pc = "RET", !.val = v])
Returned(pc) == Len(evals) >= 2 /\ Cur.pc = "RET" /\ Caller.pc = pc

OtherSame == UNCHANGED <<heapvars, evalvars, utilvars>>

\* error(): the message is printed, longjmp to the toplevel handler, loop()
\* calls repl() again
Failed(msg) == [lrec EXCEPT !.err = msg, !.done = @ + 1, !.fin = TRUE]

Fail(msg) ==
  /\ evals' = <<>>
  /\ lrec' = Failed(msg)

\* (history) a builtin was given nargs arguments on a path of eval or apply
\* and the error e was raised, "" for none
Disp(name, nargs, e, path) == [name |-> name, nargs |-> nargs, err |-> e, path |-> path]

FailD(msg, name, args, path) ==
  /\ evals' = <<>>
  /\ lrec' = [Failed(msg) EXCEPT !.disp = Disp(name, listlength(args), msg, path)]

Given(name, args, path) ==
  lrec' = [lrec EXCEPT !.disp = Disp(name, listlength(args), "", path)]

\* repl: the next form is read and eval(line, NULL) is called
ReplEval ==
  /\ evals = <<>>
  /\ Input # <<>>
  /\ evals' = <<Act(Head(Input), <<>>, 0)>>
  /\ Input' = Tail(Input)
  /\ lrec' = [NoLrec EXCEPT !.done = lrec.done, !.line = Head(Input)]
  /\ UNCHANGED <<pairs, genv, TraceFn>> /\ OtherSame

\* repl: eval has returned, the value is printed
ReplPrint ==
  /\ Len(evals) = 1
  /\ Cur.pc = "RET"
  /\ evals' = <<>>
  /\ lrec' = [lrec EXCEPT !.val = Cur.val, !.done = @ + 1, !.fin = TRUE]
  /\ UNCHANGED <<Input, pairs, genv, TraceFn>> /\ OtherSame

AtEVAL == evals # <<>> /\ Cur.pc = "EVAL"

\* EVAL: the space left on the C stack is below STACKDIFF
StackOverflow ==
  /\ AtEVAL
  /\ Len(evals) > MaxNest
  /\ Fail("stack overflow")
  /\ UNCHANGED <<Input, pairs, genv, TraceFn>> /\ OtherSame

Enough == AtEVAL /\ Len(evals) <= MaxNest

\* nil, numbers and the other self-evaluating objects
SelfEval ==
  /\ Enough
  /\ Cur.form.t \in {"nil", "num", "env"}
  /\ Return(Cur.form)
  /\ UNCHANGED <<Input, pairs, genv, TraceFn, lrec>> /\ OtherSame

\* a symbol: keyword, local value, global value, builtin, or undefined
SymbolValue ==
  /\ Enough
  /\ symbolp(Cur.form)
  /\ LET R == evalsymbol(Cur.form, Cur.env, genv, pairs)
         h == [x |-> Cur.form, env |-> Cur.env, G |-> genv, P |-> pairs,
               err |-> R.err, val |-> R.val]
     IN  IF R.err # ""
         THEN evals' = <<>> /\ lrec' = [Failed(R.err) EXCEPT !.sym = h]
         ELSE Return(R.val) /\ lrec' = [lrec EXCEPT !.sym = h]
  /\ UNCHANGED <<Input, pairs, genv, TraceFn>> /\ OtherSame

\* a list: function = car(form), args = cdr(form)
AtList == Enough /\ consp(Cur.form)
HeadBuiltin ==
  AtList /\ symbolp(first(Cur.form)) /\ builtinp(first(Cur.form).s)
    /\ Cur.form.d.t \in {"nil", "cons"}
fntype(name) == getminmax(name) \div 64

\* the lists that are no call: no function, a dotted pair, a builtin that is
\* neither a form nor a function
FormError ==
  /\ AtList
  /\ \/ /\ first(Cur.form).t = "nil"
        /\ Fail("illegal function")
     \/ /\ first(Cur.form).t # "nil"
        /\ Cur.form.d.t \notin {"nil", "cons"}
        /\ Fail("can't evaluate a dotted pair")
     \/ /\ HeadBuiltin
        /\ first(Cur.form).s \notin {"let", "let*", "lambda"}
        /\ fntype(first(Cur.form).s) = OTHER_FORMS
        /\ Fail("can't be used as a function")
  /\ UNCHANGED <<Input, pairs, genv, TraceFn>> /\ OtherSame

\* let and let*: the locals are set up
LetEnter ==
  /\ HeadBuiltin
  /\ first(Cur.form).s \in {"let", "let*"}
  /\ LET args == Cur.form.d
         name == first(Cur.form).s
     IN  IF args.t = "nil" THEN FailD("missing argument", name, args, "let") /\ UNCHANGED <<Input>>
         ELSE IF first(args).t \notin {"nil", "cons"}
         THEN FailD("not a list", name, args, "let") /\ UNCHANGED <<Input>>
         ELSE /\ SetCur([Cur EXCEPT !.pc = "let", !.name = first(Cur.form).s,
                                    !.TCstart = Cur.TC, !.assigns = first(args),
                                    !.forms = args.d, !.newenv = Cur.env,
                                    !.outer = Cur.env])
              /\ Given(name, args, "let")
              /\ UNCHANGED <<Input>>
  /\ UNCHANGED <<pairs, genv, TraceFn>> /\ OtherSame

letpushSequential(a, var, val) ==
  LET ne == <<Len(pairs) + 1>> \o a.newenv
  IN  [a EXCEPT !.pc = "let", !.newenv = ne, !.env = ne, !.assigns = a.assigns.d]

\* push(cons(var, val), newenv); if (name == LETSTAR) env = newenv; assigns = cdr(assigns)
letpush(a, var, val) ==
  LET ne == <<Len(pairs) + 1>> \o a.newenv
  IN  [a EXCEPT !.pc = "let", !.newenv = ne,
                !.env = IF a.name = "let*" THEN ne ELSE a.env,
                !.assigns = a.assigns.d]

\* the loop over the assigns: a variable without a value is bound to nil, the
\* value form of the others is evaluated in env; after the last one the body
LetAssign ==
  /\ evals # <<>>
  /\ Cur.pc = "let"
  /\ IF ~consp(Cur.assigns)
     THEN /\ SetCur([Cur EXCEPT !.pc = "progn", !.env = Cur.newenv, !.tcnext = Cur.TCstart,
                                !.after = "goto"])
          /\ UNCHANGED pairs
     ELSE LET assign == first(Cur.assigns)
          IN  IF ~consp(assign)
              THEN /\ pairs' = Append(pairs, [var |-> assign, val |-> nil])
                   /\ SetCur(letpush(Cur, assign, nil))
              ELSE IF assign.d.t = "nil"
              THEN /\ pairs' = Append(pairs, [var |-> first(assign), val |-> nil])
                   /\ SetCur(letpush(Cur, first(assign), nil))
              ELSE /\ Nest([Cur EXCEPT !.pc = "letwait", !.ienv = Cur.env],
                           second(assign), Cur.env)
                   /\ UNCHANGED pairs
  /\ UNCHANGED <<Input, genv, TraceFn, lrec>> /\ OtherSame

\* the value of an assign has arrived
LetBound ==
  /\ Returned("letwait")
  /\ pairs' = Append(pairs, [var |-> first(first(Caller.assigns)), val |-> Cur.val])
  /\ Resume(letpush(Caller, first(first(Caller.assigns)), Cur.val))
  /\ UNCHANGED <<Input, genv, TraceFn, lrec>> /\ OtherSame

\* what follows tf_progn: goto EVAL with the form it returns, or, for a traced
\* function and in apply, eval(form, env) and the return of its value
continueNested(a, f) ==
  Nest([a EXCEPT !.pc = "retwait"], f, a.env)

continue(a, f) ==
  IF a.after = "goto"
  THEN SetCur([a EXCEPT !.pc = "EVAL", !.form = f, !.TC = a.tcnext])
  ELSE Nest([a EXCEPT !.pc = "retwait"], f, a.env)

\* tf_progn: every form but the last is evaluated, the last one is returned
PrognStep ==
  /\ evals # <<>>
  /\ Cur.pc = "progn"
  /\ IF ~consp(Cur.forms) THEN continue(Cur, nil)
     ELSE IF ~consp(Cur.forms.d) THEN continue(Cur, first(Cur.forms))
     ELSE Nest([Cur EXCEPT !.pc = "prognwait"], first(Cur.forms), Cur.env)
  /\ UNCHANGED <<Input, pairs, genv, TraceFn, lrec>> /\ OtherSame

PrognNext ==
  /\ Returned("prognwait")
  /\ Resume([Caller EXCEPT !.pc = "progn", !.forms = Caller.forms.d])
  /\ UNCHANGED <<Input, pairs, genv, TraceFn, lrec>> /\ OtherSame

\* the value of a traced call, or of the eval that ends apply, is returned
ReturnNested ==
  /\ Returned("retwait")
  /\ Resume([Caller EXCEPT !.pc = "RET", !.val = Cur.val])
  /\ UNCHANGED <<Input, pairs, genv, TraceFn, lrec>> /\ OtherSame

\* lambda: the form itself at top level, else a closure over a copy of the
\* environment list that shares its pairs
envcopyOuter(e) == Reverse(SelectSeq(Tail(e), LAMBDA p : p # 0))

envcopy(e) == Reverse(SelectSeq(e, LAMBDA p : p # 0))

LambdaForm ==
  /\ HeadBuiltin
  /\ first(Cur.form).s = "lambda"
  /\ LET v == IF Cur.env = <<>> THEN Cur.form
              ELSE Cons(Sym("closure"), Cons(EnvList(envcopy(Cur.env)), Cur.form.d))
     IN  /\ Return(v)
         /\ lrec' = [lrec EXCEPT !.lam = [env |-> Cur.env, val |-> v],
                                  !.disp = Disp("lambda", listlength(Cur.form.d), "", "lambda")]
  /\ UNCHANGED <<Input, pairs, genv, TraceFn>> /\ OtherSame

\* the global binding of sp_defun and sp_defvar: the pair of GlobalEnv is
\* changed, or a new pair is pushed
setglobal(var, val) ==
  LET pair == value(var.s, genv, pairs)
  IN  IF pair # 0
      THEN pairs' = [pairs EXCEPT ![pair].val = val] /\ UNCHANGED genv
      ELSE /\ pairs' = Append(pairs, [var |-> var, val |-> val])
           /\ genv' = <<Len(pairs) + 1>> \o genv

\* sp_trace returns the traced names, last slot first
tracelist(T) ==
  LET used == SelectSeq(T, LAMBDA n : n # "")
  IN  List([i \in 1 .. Len(used) |-> Sym(used[Len(used) + 1 - i])])

\* the special forms: checkargs, then the function of the table
SpecialForm ==
  /\ HeadBuiltin
  /\ fntype(first(Cur.form).s) = SPECIAL_FORMS
  /\ LET name == first(Cur.form).s
         args == Cur.form.d
         bad == checkargs(name, args)
         Same == UNCHANGED <<pairs, genv, TraceFn>>
         free == {i \in 1 .. TRACEMAX : TraceFn[i] = ""}
     IN  IF bad # "" THEN FailD(bad, name, args, "special") /\ Same
         ELSE CASE name = "quote" ->
                     Return(first(args)) /\ Given(name, args, "special") /\ Same
                [] name = "defun" ->
                     IF ~symbolp(first(args))
                     THEN FailD("not a symbol", name, args, "special") /\ Same
                     ELSE /\ setglobal(first(args), Cons(Sym("lambda"), args.d))
                          /\ Return(first(args))
                          /\ Given(name, args, "special")
                          /\ UNCHANGED TraceFn
                [] name = "defvar" ->
                     IF ~symbolp(first(args))
                     THEN FailD("not a symbol", name, args, "special") /\ Same
                     ELSE IF consp(args.d)
                     THEN /\ Nest([Cur EXCEPT !.pc = "defvarwait"], first(args.d), Cur.env)
                          /\ Given(name, args, "special") /\ Same
                     ELSE /\ setglobal(first(args), nil)
                          /\ Return(first(args))
                          /\ Given(name, args, "special")
                          /\ UNCHANGED TraceFn
                [] name = "setq" ->
                     /\ SetCur([Cur EXCEPT !.pc = "setq", !.forms = args, !.val = nil])
                     /\ Given(name, args, "special") /\ Same
                [] name = "trace" ->
                     IF ~consp(args)
                     THEN Return(tracelist(TraceFn)) /\ Given(name, args, "special") /\ Same
                     ELSE IF ~symbolp(first(args)) THEN FailD("not a symbol", name, args, "special") /\ Same
                     ELSE IF tracing(first(args).s) THEN FailD("already being traced", name, args, "special") /\ Same
                     ELSE IF free = {} THEN FailD("already tracing 3 functions", name, args, "special") /\ Same
                     ELSE LET i == CHOOSE i \in free : \A j \in free : i <= j
                              T == [TraceFn EXCEPT ![i] = first(args).s]
                          IN  /\ TraceFn' = T
                              /\ Return(tracelist(T))
                              /\ Given(name, args, "special")
                              /\ UNCHANGED <<pairs, genv>>
  /\ UNCHANGED Input /\ OtherSame

\* sp_defvar: the value has arrived
DefvarStore ==
  /\ Returned("defvarwait")
  /\ setglobal(first(Caller.form.d), Cur.val)
  /\ Resume([Caller EXCEPT !.pc = "RET", !.val = first(Caller.form.d)])
  /\ UNCHANGED <<Input, TraceFn, lrec>> /\ OtherSame

\* sp_setq: the loop over the pairs of arguments
SetqStep ==
  /\ evals # <<>>
  /\ Cur.pc = "setq"
  /\ IF ~consp(Cur.forms) THEN Return(Cur.val) /\ UNCHANGED lrec
     ELSE IF ~consp(Cur.forms.d) THEN Fail("odd number of arguments")
     ELSE LET pair == IF symbolp(first(Cur.forms))
                      THEN findpair(first(Cur.forms), Cur.env, genv, pairs) ELSE 0
          IN  IF pair = 0 THEN Fail("unknown variable")
              ELSE /\ Nest([Cur EXCEPT !.pc = "setqwait", !.pair = pair],
                           second(Cur.forms), Cur.env)
                   /\ UNCHANGED lrec
  /\ UNCHANGED <<Input, pairs, genv, TraceFn>> /\ OtherSame

\* cdr(pair) = arg; args = cddr(args)
SetqStore ==
  /\ Returned("setqwait")
  /\ pairs' = [pairs EXCEPT ![Caller.pair].val = Cur.val]
  /\ Resume([Caller EXCEPT !.pc = "setq", !.forms = cddr(Caller.forms), !.val = Cur.val])
  /\ UNCHANGED <<Input, genv, TraceFn, lrec>> /\ OtherSame

\* the tail forms: checkargs, then the function of the table gives the next form
TailForm ==
  /\ HeadBuiltin
  /\ fntype(first(Cur.form).s) = TAIL_FORMS
  /\ LET name == first(Cur.form).s
         args == Cur.form.d
         bad == checkargs(name, args)
     IN  IF bad # "" THEN FailD(bad, name, args, "tail")
         ELSE IF name = "progn"
         THEN /\ SetCur([Cur EXCEPT !.pc = "progn", !.forms = args, !.tcnext = 1,
                                    !.after = "goto"])
              /\ Given(name, args, "tail")
         ELSE IF ~consp(args) \/ ~consp(args.d) THEN FailD(toofewargs, name, args, "tail")
         ELSE /\ Nest([Cur EXCEPT !.pc = "ifwait"], first(args), Cur.env)
              /\ Given(name, args, "tail")
  /\ UNCHANGED <<Input, pairs, genv, TraceFn>> /\ OtherSame

\* tf_if: the test has been evaluated; goto EVAL with the branch, TC = 1
IfChoose ==
  /\ Returned("ifwait")
  /\ LET args == Caller.form.d
         f == IF Cur.val.t # "nil" THEN second(args)
              ELSE IF consp(cddr(args)) THEN first(cddr(args)) ELSE nil
     IN  Resume([Caller EXCEPT !.pc = "EVAL", !.form = f, !.TC = 1])
  /\ UNCHANGED <<Input, pairs, genv, TraceFn, lrec>> /\ OtherSame

\* a call: fname = car(form), TCstart = TC, head = cons(eval(fname, env), NULL)
CallEnter ==
  /\ AtList
  /\ first(Cur.form).t # "nil"
  /\ Cur.form.d.t \in {"nil", "cons"}
  /\ HeadBuiltin => fntype(first(Cur.form).s) = FUNCTIONS
  /\ Nest([Cur EXCEPT !.pc = "callwait", !.fname = first(Cur.form), !.TCstart = Cur.TC,
                      !.head = <<>>, !.forms = Cur.form.d],
          first(Cur.form), Cur.env)
  /\ UNCHANGED <<Input, pairs, genv, TraceFn, lrec>> /\ OtherSame

\* the value of fname or of an argument has arrived: it goes to the end of
\* head and the next argument is evaluated
CallValue ==
  /\ Returned("callwait")
  /\ LET a == [Caller EXCEPT !.head = Append(Caller.head, Cur.val)]
     IN  IF consp(a.forms)
         THEN evals' = SubSeq(evals, 1, Len(evals) - 2) \o
                         <<[a EXCEPT !.forms = a.forms.d], Act(first(a.forms), a.env, 0)>>
         ELSE Resume([a EXCEPT !.pc = "dispatch"])
  /\ UNCHANGED <<Input, pairs, genv, TraceFn, lrec>> /\ OtherSame

\* function = car(head) is a symbol: checkminmax, then the function of the table
CallBuiltin ==
  /\ evals # <<>>
  /\ Cur.pc = "dispatch"
  /\ symbolp(Cur.head[1])
  /\ LET bname == Cur.head[1].s
         args == List(Tail(Cur.head))
         nargs == Len(Cur.head) - 1
         bad == checkminmax(bname, nargs)
         R == callfn(bname, args)
         d(e) == [name |-> bname, nargs |-> nargs, err |-> e, path |-> "call"]
     IN  IF ~builtinp(bname) THEN Fail("not valid here")
         ELSE IF bad # ""
         THEN evals' = <<>> /\ lrec' = [Failed(bad) EXCEPT !.disp = d(bad)]
         ELSE IF bname = "funcall"
         THEN /\ SetCur([Cur EXCEPT !.pc = "apply", !.head = Tail(Cur.head)])
              /\ lrec' = [lrec EXCEPT !.disp = d("")]
         ELSE IF R.err # ""
         THEN evals' = <<>> /\ lrec' = [Failed(R.err) EXCEPT !.disp = d(R.err)]
         ELSE Return(R.val) /\ lrec' = [lrec EXCEPT !.disp = d("")]
  /\ UNCHANGED <<Input, pairs, genv, TraceFn>> /\ OtherSame

\* function is a lambda list or a closure: closure() binds the arguments and
\* the body is evaluated in this activation (goto EVAL), or, when the function
\* is traced, by a nested eval
CallClosure ==
  /\ evals # <<>>
  /\ Cur.pc = "dispatch"
  /\ ~symbolp(Cur.head[1])
  /\ LET function == Cur.head[1]
         args == List(Tail(Cur.head))
         isl == consp(function) /\ isbuiltin(first(function), "lambda")
         isc == consp(function) /\ isbuiltin(first(function), "closure")
         C == closure(Cur.TCstart, IF isl THEN function ELSE function.d, args, Cur.env, pairs)
         traced == isl /\ symbolp(Cur.fname) /\ tracing(Cur.fname.s)
     IN  IF ~(isl \/ isc) THEN Fail("illegal function") /\ UNCHANGED pairs
         ELSE IF C.err # "" THEN Fail(C.err) /\ UNCHANGED pairs
         ELSE /\ pairs' = C.P
              /\ SetCur([Cur EXCEPT !.pc = "progn", !.env = C.env, !.forms = C.body,
                                    !.tcnext = 1,
                                    !.after = IF traced THEN "call" ELSE "goto"])
              /\ lrec' = [lrec EXCEPT !.calls =
                            Append(@, [fname |-> Cur.fname, depth |-> Len(evals),
                                       tc |-> Cur.TCstart, traced |-> traced,
                                       envlen |-> Len(C.env)])]
  /\ UNCHANGED <<Input, genv, TraceFn>> /\ OtherSame

\* apply(function, args, env), called by fn_funcall
Apply ==
  /\ evals # <<>>
  /\ Cur.pc = "apply"
  /\ LET f0 == Cur.head[1]
         args == List(Tail(Cur.head))
         isfn == symbolp(f0) /\ builtinp(f0.s) /\ fntype(f0.s) = FUNCTIONS
         bad == checkargs(f0.s, args)
         R == callfn(f0.s, args)
         d(e) == [name |-> f0.s, nargs |-> Len(Cur.head) - 1, err |-> e, path |-> "apply"]
         E == evalsymbol(f0, Cur.env, genv, pairs)
         f1 == IF symbolp(f0) THEN E.val ELSE f0
         isl == consp(f1) /\ isbuiltin(first(f1), "lambda")
         isc == consp(f1) /\ isbuiltin(first(f1), "closure")
         C == closure(0, IF isl THEN f1 ELSE f1.d, args, Cur.env, pairs)
     IN  IF isfn
         THEN /\ UNCHANGED pairs
              /\ IF bad # ""
                 THEN evals' = <<>>
                      /\ lrec' = [Failed(bad) EXCEPT !.disp = d(bad)]
                 ELSE IF f0.s = "funcall"
                 THEN /\ SetCur([Cur EXCEPT !.head = Tail(Cur.head)])
                      /\ lrec' = [lrec EXCEPT !.disp = d("")]
                 ELSE IF R.err # ""
                 THEN evals' = <<>>
                      /\ lrec' = [Failed(R.err) EXCEPT !.disp = d(R.err)]
                 ELSE Return(R.val) /\ lrec' = [lrec EXCEPT !.disp = d("")]
         ELSE IF symbolp(f0) /\ Len(evals) + 1 > MaxNest
         THEN Fail("stack overflow") /\ UNCHANGED pairs
         ELSE IF symbolp(f0) /\ E.err # "" THEN Fail(E.err) /\ UNCHANGED pairs
         ELSE IF ~(isl \/ isc) THEN Fail("illegal function") /\ UNCHANGED pairs
         ELSE IF C.err # "" THEN Fail(C.err) /\ UNCHANGED pairs
         ELSE /\ pairs' = C.P
              /\ SetCur([Cur EXCEPT !.pc = "progn", !.env = C.env, !.forms = C.body,
                                    !.after = "call"])
              /\ UNCHANGED lrec
  /\ UNCHANGED <<Input, genv, TraceFn>> /\ OtherSame

(* ------------------------------------------------------------------ *)
(* The lines typed at the prompt                                        *)
(* ------------------------------------------------------------------ *)

S(x) == Sym(x)
N(n) == Num(n)
L(s) == List(s)
Q(x) == L(<<S("quote"), x>>)

\* (defun lpn (n) (if (= n 0) 'done (lpn (1- n))))
DefLoop ==
  L(<<S("defun"), S("lpn"), L(<<S("n")>>),
      L(<<S("if"), L(<<S("="), S("n"), N(0)>>), Q(S("done")),
          L(<<S("lpn"), L(<<S("1-"), S("n")>>)>>)>>)>>)

\* (defun lpl (n) (let ((m (1- n))) (if (= m 0) 'done (lpl m))))
DefLetLoop ==
  L(<<S("defun"), S("lpl"), L(<<S("n")>>),
      L(<<S("let"), L(<<L(<<S("m"), L(<<S("1-"), S("n")>>)>>)>>),
          L(<<S("if"), L(<<S("="), S("m"), N(0)>>), Q(S("done")),
              L(<<S("lpl"), S("m")>>)>>)>>)>>)

\* (defun cnt (n) (if (= n 0) 0 (+ 1 (cnt (1- n)))))
DefCount ==
  L(<<S("defun"), S("cnt"), L(<<S("n")>>),
      L(<<S("if"), L(<<S("="), S("n"), N(0)>>), N(0),
          L(<<S("+"), N(1), L(<<S("cnt"), L(<<S("1-"), S("n")>>)>>)>>)>>)>>)

\* (let ((x 1)) (let ((x 2)) x))
LetShadow ==
  L(<<S("let"), L(<<L(<<S("x"), N(1)>>)>>),
      L(<<S("let"), L(<<L(<<S("x"), N(2)>>)>>), S("x")>>)>>)

\* (let* ((x 1) (y x)) y) and (let ((x 1) (y x)) y)
LetPair(name) ==
  L(<<S(name), L(<<L(<<S("x"), N(1)>>), L(<<S("y"), S("x")>>)>>), S("y")>>)

\* (let ((x 1) z) (let* ((x 2) (y x) (z x)) (progn z (+ x y))))
LetMixed ==
  L(<<S("let"), L(<<L(<<S("x"), N(1)>>), S("z")>>),
      L(<<S("let*"), L(<<L(<<S("x"), N(2)>>), L(<<S("y"), S("x")>>), L(<<S("z"), S("x")>>)>>),
          L(<<S("progn"), S("z"), L(<<S("+"), S("x"), S("y")>>)>>)>>)>>)

\* (let ((x 1)) (let ((f (lambda () x))) (setq x 2) (let ((x 5)) call))), call
\* being (f) or (funcall f)
Capture(call) ==
  L(<<S("let"), L(<<L(<<S("x"), N(1)>>)>>),
      L(<<S("let"), L(<<L(<<S("f"), L(<<S("lambda"), nil, S("x")>>)>>)>>),
          L(<<S("setq"), S("x"), N(2)>>),
          L(<<S("let"), L(<<L(<<S("x"), N(5)>>)>>), call>>)>>)>>)

\* (let ((:key 1) (car 3) (x 4)) :key (+ x car))
LocalNames ==
  L(<<S("let"), L(<<L(<<S(":key"), N(1)>>), L(<<S("car"), N(3)>>), L(<<S("x"), N(4)>>)>>),
      S(":key"),
      L(<<S("+"), S("x"), S("car")>>)>>)

Programs ==
  { <<DefLoop, L(<<S("lpn"), N(MaxIter)>>)>>,
    <<DefLoop, L(<<S("trace"), S("lpn")>>), L(<<S("lpn"), N(MaxIter)>>), L(<<S("trace")>>)>>,
    <<DefLetLoop, L(<<S("lpl"), N(MaxIter)>>)>>,
    <<DefCount, L(<<S("cnt"), N(MaxIter)>>)>>,
    <<LetShadow, LetPair("let*"), LetPair("let")>>,
    <<L(<<S("defvar"), S("x"), N(7)>>), LetPair("let"), LetMixed, S("x")>>,
    <<Capture(L(<<S("f")>>)), Capture(L(<<S("funcall"), S("f")>>))>>,
    <<L(<<S("defvar"), S("x"), N(7)>>), L(<<S("defvar"), S("y")>>), LocalNames,
      S("x"), S("car"), S("*features*"), S(":key"), S("zz"), nil, N(3)>>,
    <<L(<<S("lambda")>>), L(<<S("let")>>), L(<<S("if"), N(1)>>), L(<<S("car")>>),
      L(<<S("1-"), N(1), N(2)>>), L(<<S("quote")>>), L(<<S("trace"), S("a"), S("b")>>),
      L(<<S("progn")>>), L(<<S("closure"), N(1)>>),
      L(<<S("funcall"), Q(S("1-")), N(1), N(2)>>), L(<<S("funcall"), Q(S("car"))>>),
      L(<<S("funcall"), Q(S("funcall")), Q(S("+")), N(INT_MAX), N(1)>>),
      L(<<S("funcall"), Q(S("lpn")), N(1)>>),
      L(<<L(<<S("lambda"), L(<<S("a")>>), S("a")>>)>>),
      L(<<S("setq"), S("x")>>), L(<<nil>>), Cons(S("zz"), N(1)),
      L(<<N(1), N(2)>>)>> }

\* after setup(): nothing defined, nothing traced, the lines to come
LispInit ==
  /\ Input \in Programs
  /\ evals = <<>>
  /\ pairs = <<>>
  /\ genv = <<>>
  /\ TraceFn = [i \in 1 .. TRACEMAX |-> ""]
  /\ lrec = NoLrec

LispNext ==
  \/ ReplEval \/ ReplPrint \/ StackOverflow \/ SelfEval \/ SymbolValue \/ FormError
  \/ LetEnter \/ LetAssign \/ LetBound \/ PrognStep \/ PrognNext \/ ReturnNested
  \/ LambdaForm \/ SpecialForm \/ DefvarStore \/ SetqStep \/ SetqStore
  \/ TailForm \/ IfChoose
  \/ CallEnter \/ CallValue \/ CallBuiltin \/ CallClosure \/ Apply

InitLisp == HeapInit /\ EvalInit /\ LispInit /\ UtilQuiet

SpecLisp == InitLisp /\ [][LispNext]_vars

\* ---------------------------------------------------------------------------
\* Tail calls

\* the functions of the programs above whose body calls itself in tail
\* position: lpn through if, lpl through let and if
TailFns == {"lpn", "lpl"}

SelfTail(k) ==
  /\ symbolp(lrec.calls[k].fname)
  /\ lrec.calls[k].fname.s \in TailFns

\* C11 (as stated): every iteration of a function that calls itself in tail
\* position enters its body at the eval nesting depth of the first iteration,
\* and no 'stack overflow' error is raised.
C11_TailCallDepth ==
  \A k \in 1 .. Len(lrec.calls) :
     SelfTail(k) =>
        /\ lrec.calls[k].depth = lrec.calls[1].depth
        /\ lrec.err # "stack overflow"

\* C11 (amended): the same for a function that is not being traced; a traced
\* function has its body evaluated by a recursive eval(form, env).
C11_UntracedTailCallDepth ==
  \A k \in 1 .. Len(lrec.calls) :
     (SelfTail(k) /\ ~lrec.calls[k].traced) =>
        /\ lrec.calls[k].depth = lrec.calls[1].depth
        /\ lrec.err # "stack overflow"

\* (lpn MaxIter) has run all its iterations untraced and returned done
C11_LoopDone ==
  /\ lrec.fin
  /\ Len(lrec.calls) = MaxIter + 1
  /\ \A k \in 1 .. Len(lrec.calls) :
        /\ SelfTail(k)
        /\ lrec.calls[k].fname.s = "lpn"
        /\ ~lrec.calls[k].traced
  /\ lrec.calls[MaxIter + 1].tc = 1
  /\ lrec.val = Sym("done")

\* C12: on every tail call of a function that calls itself in tail position
\* the environment at the entry of the body is no longer than it was on the
\* first tail call.
C12_EnvBounded ==
  \A k \in 2 .. Len(lrec.calls) :
     (SelfTail(k) /\ lrec.calls[k].tc = 1) =>
        lrec.calls[k].envlen <= lrec.calls[2].envlen

\* ---------------------------------------------------------------------------
\* Argument counts

\* what the declared bounds of the builtin d.name ask of a call with d.nargs
\* arguments that ended with the error d.err
ArityAsDeclared(d) ==
  LET minmax == getminmax(d.name)
      min == (minmax \div 8) % 8
      max == minmax % 8
  IN  /\ d.nargs < min => d.err = toofewargs
      /\ (max # 7 /\ d.nargs > max) => d.err = toomanyargs
      /\ (d.nargs >= min /\ (max = 7 \/ d.nargs <= max)) =>
            d.err \notin {toofewargs, toomanyargs}

\* C13: a builtin given fewer arguments than its declared minimum fails with
\* 'too few arguments', given more than its declared maximum with 'too many
\* arguments', and given a count within the bounds with neither, on every
\* path on which eval and apply dispatch a builtin.
C13_ArityEnforced ==
  lrec.disp.name # "" => ArityAsDeclared(lrec.disp)

\* ---------------------------------------------------------------------------
\* let and let*

RECURSIVE Elems(_)
\* the elements of a list, first to last
Elems(x) == IF consp(x) THEN <<x.a>> \o Elems(x.d) ELSE <<>>

\* the variable an assign of a let binds
AssignVar(assign) == IF consp(assign) THEN first(assign) ELSE assign

\* a let or let* under way in activation a: the assigns v1..vk already processed
\* are bound, innermost last, in front of the environment outside the let
LetBindings(a) ==
  LET all == Elems(first(a.form.d))
      k == Len(all) - Len(Elems(a.assigns))
  IN  /\ Len(a.newenv) = k + Len(a.outer)
      /\ SubSeq(a.newenv, k + 1, Len(a.newenv)) = a.outer
      /\ \A j \in 1 .. k : pairs[a.newenv[j]].var = AssignVar(all[k + 1 - j])

GloballyBound(name) == \E i \in 1 .. Len(genv) : pairs[genv[i]].var = Sym(name)

\* C14: every value form of a let is evaluated in the environment outside the
\* let, every value form of a let* in the environment that already holds the
\* variables before it, and the body sees the new bindings in front of the
\* outer ones: (let ((x 1)) (let ((x 2)) x)) is 2, (let* ((x 1) (y x)) y) is 1,
\* (let ((x 1) (y x)) y) is the x outside the let.
C14_LetScopes ==
  /\ \A i \in 1 .. Len(evals) :
        LET a == evals[i]
        IN  a.pc \in {"let", "letwait"} =>
               /\ LetBindings(a)
               /\ a.pc = "letwait" =>
                     /\ a.ienv = (IF a.name = "let" THEN a.outer ELSE a.newenv)
                     /\ i < Len(evals)
  /\ lrec.fin =>
        /\ lrec.line = LetShadow => (lrec.err = "" /\ lrec.val = Num(2))
        /\ lrec.line = LetPair("let*") => (lrec.err = "" /\ lrec.val = Num(1))
        /\ lrec.line = LetPair("let") =>
              IF GloballyBound("x") THEN lrec.err = "" /\ lrec.val = Num(7)
              ELSE lrec.err = "undefined"
        /\ lrec.line = LetMixed => (lrec.err = "" /\ lrec.val = Num(4))

\* (let ((x 1) z) (let* ((x 2) (y x) (z x)) (progn z (+ x y)))) has returned 4
\* where a global x is 7
C14_MixedDone ==
  /\ lrec.fin
  /\ lrec.line = LetMixed
  /\ GloballyBound("x")
  /\ lrec.val = Num(4)

\* ---------------------------------------------------------------------------
\* Symbols

\* the places of the environment e that bind the symbol x
Binders(x, e, P) == {i \in 1 .. Len(e) : e[i] # 0 /\ P[e[i]].var = x}

\* the value of the innermost binding of x in e
Innermost(x, e, P) ==
  LET B == Binders(x, e, P)
  IN  P[e[CHOOSE i \in B : \A j \in B : i <= j]].val

\* the last symbol evaluated, h, was looked up locally, then globally, then
\* among the builtin names
LookedUp(h) ==
  IF Binders(h.x, h.env, h.P) # {}
  THEN h.err = "" /\ h.val = Innermost(h.x, h.env, h.P)
  ELSE IF Binders(h.x, h.G, h.P) # {}
  THEN h.err = "" /\ h.val = Innermost(h.x, h.G, h.P)
  ELSE IF builtinp(h.x.s)
  THEN h.err = "" /\ h.val = h.x
  ELSE h.err = "undefined"

Bindings(e) == SelectSeq(e, LAMBDA p : p # 0)

CaptureLines == {Capture(L(<<S("f")>>)), Capture(L(<<S("funcall"), S("f")>>))}

\* C16: the closure made by lambda in a non-empty environment holds a list of
\* the very pairs of that environment, and a setq of a captured variable done
\* after the closure was made is seen when the closure is called:
\* (let ((x 1)) (let ((f (lambda () x))) (setq x 2) (let ((x 5)) (f)))) is 2.
C16_SharedPairs ==
  /\ (lrec.lam.val # nil /\ lrec.lam.env # <<>>) =>
        LET v == lrec.lam.val
            B == Bindings(lrec.lam.env)
        IN  /\ isbuiltin(first(v), "closure")
            /\ second(v).t = "env"
            /\ Len(second(v).e) = Len(B)
            /\ \A i \in 1 .. Len(B) : second(v).e[i] = B[Len(B) + 1 - i]
  /\ (lrec.fin /\ lrec.line \in CaptureLines) =>
        (lrec.err = "" /\ lrec.val = Num(2))

\* the closure f over x was made when x was 1 and has been called after
\* (setq x 2), where the caller's own x is 5
C16_CalledAfterSetq ==
  /\ lrec.fin
  /\ lrec.line \in CaptureLines
  /\ lrec.lam.env # <<>>
  /\ Len(lrec.calls) = 1
  /\ lrec.val = Num(2)

\* ---------------------------------------------------------------------------
\* Addition

MaxAddends == 3

\* the arguments tried: the ends of the range of int, its halves, and the
\* numbers around zero
Addends == {INT_MIN, -16384, -1, 0, 1, 16384, INT_MAX}

AddArgs == UNION {[1 .. n -> Addends] : n \in 0 .. MaxAddends}

\* (+ a1 ... an), the arguments being those of calc.in
AddApply ==
  /\ calc.op = "args"
  /\ LET args == calc.in
         R == fn_add(List([k \in 1 .. Len(args) |-> Num(args[k])]), 0)
     IN  calc' = [calc EXCEPT !.op = "add", !.err = R.err,
                              !.val = IF R.err = "" THEN R.val.n ELSE 0]
  /\ UNCHANGED <<heapvars, evalvars, lispvars, EditBuf, EditBufLen>>

InitAdd ==
  /\ HeapInit /\ EvalInit /\ LispQuiet
  /\ EditBuf = [i \in BufCells |-> 0]
  /\ EditBufLen = 0
  /\ \E args \in AddArgs : calc = [NoCalc EXCEPT !.op = "args", !.in = args]

SpecAdd == InitAdd /\ [][AddApply]_vars

RECURSIVE Sum(_)
\* the sum of a sequence of integers, in the integers
Sum(s) == IF s = <<>> THEN 0 ELSE Head(s) + Sum(Tail(s))

InRange(x) == INT_MIN <= x /\ x <= INT_MAX

\* C17: + fails with 'arithmetic overflow' when a partial sum of its arguments
\* is outside [-32768, 32767], and returns the exact sum when every partial
\* sum is inside.
C17_AddOverflow ==
  calc.op = "add" =>
     IF \A k \in 1 .. Len(calc.in) : InRange(Sum(SubSeq(calc.in, 1, k)))
     THEN calc.err = "" /\ calc.val = Sum(calc.in)
     ELSE calc.err = "arithmetic overflow"

\* + has failed on a sum below the range
C17_BelowRange ==
  /\ calc.op = "add"
  /\ Sum(calc.in) < INT_MIN
  /\ calc.err = "arithmetic overflow"

\* ---------------------------------------------------------------------------
\* The reader: numbers

MaxDigits == 5

\* the digits tried: those of 32767, 32768 and 65536, and zero
ReadDigits == {0, 2, 3, 5, 6, 7, 8}

\* no sign, '+' and '-'
SignChars == {0, 43, 45}

Tokens == UNION {[1 .. n -> ReadDigits] : n \in 1 .. MaxDigits}

RECURSIVE accumulate(_, _, _)
\* result = result * base + temp for every character of the token, result
\* being an unsigned int of 16 bits
accumulate(result, base, digits) ==
  IF digits = <<>> THEN result
  ELSE accumulate((result * base + Head(digits)) % 65536, base, Tail(digits))

\* nextitem on a token of decimal digits after an optional sign: [err, val]
nextitem(signch, digits) ==
  LET sign == IF signch = 45 THEN -1 ELSE 1
      result == accumulate(0, 10, digits)
  IN  IF result > INT_MAX + (1 - sign) \div 2
      THEN [err |-> "Number out of range", val |-> 0]
      ELSE [err |-> "", val |-> Int16(result * sign)]

\* the token of calc.in is read
ReadNumber ==
  /\ calc.op = "token"
  /\ LET R == nextitem(calc.c, calc.in)
     IN  calc' = [calc EXCEPT !.op = "read", !.err = R.err, !.val = R.val]
  /\ UNCHANGED <<heapvars, evalvars, lispvars, EditBuf, EditBufLen>>

InitRead ==
  /\ HeapInit /\ EvalInit /\ LispQuiet
  /\ EditBuf = [i \in BufCells |-> 0]
  /\ EditBufLen = 0
  /\ \E digits \in Tokens, signch \in SignChars :
        calc = [NoCalc EXCEPT !.op = "token", !.in = digits, !.c = signch]

SpecRead == InitRead /\ [][ReadNumber]_vars

RECURSIVE Decimal(_)
\* the number a sequence of decimal digits writes
Decimal(digits) ==
  IF digits = <<>> THEN 0
  ELSE 10 * Decimal(SubSeq(digits, 1, Len(digits) - 1)) + digits[Len(digits)]

Written(t) == (IF t.c = 45 THEN -1 ELSE 1) * Decimal(t.in)

\* C18: a token of decimal digits after an optional sign whose value is
\* outside the range of a 16-bit integer raises 'Number out of range', and a
\* token read without an error is read as the number it writes.
C18_ReaderRange ==
  calc.op = "read" =>
     IF InRange(Written(calc))
     THEN calc.err = "" /\ calc.val = Written(calc)
     ELSE calc.err = "Number out of range"

\* ---------------------------------------------------------------------------
\* myalloc

\* the two calls of myalloc in the head of a call, cons(eval(fname), NULL) and
\* protect(head), made on the heap H that eval's entry leaves
TwoCells(H) ==
  LET head1 == H.Freelist
      head2 == cdr(H.W, head1)
  IN  IF H.Freespace = 0
      THEN \* no room at once: nothing is handed out
           /\ ctl'.m = "throw"
           /\ Workspace' = H.W /\ Freelist' = H.Freelist /\ Freespace' = 0
           /\ GCStack' = NULL
           /\ UNCHANGED <<stack, handler>>
      ELSE IF H.Freespace = 1
      THEN \* the head of the free list is handed out, then no room
           /\ ctl'.m = "throw"
           /\ Freelist' = head2 /\ Freespace' = 0
           /\ Idx(head1) \notin FreeCells(Workspace', Freelist', WORKSPACESIZE)
           /\ GCStack' = NULL
           /\ UNCHANGED <<stack, handler>>
      ELSE \* the head, then the new head
           /\ ctl'.m # "throw"
           /\ stack'[Len(stack')].head = head1
           /\ GCStack' = head2
           /\ Idx(head1) \in FreeCells(H.W, H.Freelist, WORKSPACESIZE)
           /\ Idx(head2) \in FreeCells(H.W, H.Freelist, WORKSPACESIZE)
           /\ Freelist' = cdr(H.W, head2) /\ Freespace' = H.Freespace - 2
           /\ Idx(head1) \notin FreeCells(Workspace', Freelist', WORKSPACESIZE)
           /\ Idx(head2) \notin FreeCells(Workspace', Freelist', WORKSPACESIZE)

\* the longjmp of errorend arrives at the handler installed last, the top
\* level when there is none
LandsAtHandler ==
  IF handler = 0 THEN ctl'.m = "prompt" /\ stack' = <<>>
  ELSE /\ handler' = stack[handler].prev
       /\ Len(stack') \in {handler - 1, handler}
       /\ SubSeq(stack', 1, handler - 1) = SubSeq(stack, 1, handler - 1)

\* the evaluator without the keyboard: calls, errors, and ignore-errors as the
\* form that installs a handler
AllocNext ==
  \/ ReplRead \/ EvalOverflow \/ EvalError \/ EvalAtom
  \/ EvalCall \/ EvalIgnoreErrors
  \/ RetRepl \/ RetArg \/ RetBody
  \/ ApplyPlain
  \/ LandTop \/ LandIgnore

SpecAlloc == Init /\ [][AllocNext]_vars

\* C19: with Freespace = 0 myalloc raises 'no room', which goes to the current
\* handler, and hands out no cell; otherwise it returns the head of the free
\* list and takes it off the list.
C19_Myalloc ==
  [][/\ EvalCall => TwoCells(EntryHeap)
     /\ (ctl.m = "throw" /\ ctl' # ctl) => LandsAtHandler]_vars

\* 'no room' has been raised in a call under an ignore-errors
C19_NoRoomRaised ==
  /\ ctl.m = "throw"
  /\ Freespace = 0
  /\ GCStack = NULL
  /\ handler > 0
  /\ stack # <<>>
  /\ stack[Len(stack)].k = "call"

\* ---------------------------------------------------------------------------
\* The edit buffer

\* the characters tried: a, and one with the top bit set
BufChars == {97, 200}

\* char is signed on the AVR: its value as an int of 16 bits
SignExt(ch) == IF ch >= 128 THEN 65280 + ch ELSE ch

\* buildstring(ch, &tail) on a string whose chain cells hold the words: a cell
\* with a free low byte takes the character, else a new cell holds it in its
\* high byte; a cell whose word is zero reads as the end of the chain and
\* has its word replaced by the address of the new cell (-1 here)
buildstring(words, ch) ==
  LET n == Len(words)
      cell == (SignExt(ch) * 256) % 65536
  IN  IF n = 0 THEN <<cell>>
      ELSE IF words[n] = 0 THEN Append([words EXCEPT ![n] = -1], cell)
      ELSE IF words[n] % 256 = 0
      THEN [words EXCEPT ![n] = IF ch >= 128 THEN 65280 + ch ELSE words[n] + ch]
      ELSE Append(words, cell)

RECURSIVE BuildAll(_, _)
\* buildstring for every character of a sequence
BuildAll(words, chars) ==
  IF chars = <<>> THEN words
  ELSE BuildAll(buildstring(words, Head(chars)), Tail(chars))

RECURSIVE stringlength(_)
\* stringlength: the bytes of the chain that are not zero
stringlength(words) ==
  IF words = <<>> THEN 0
  ELSE (IF Head(words) \div 256 # 0 THEN 1 ELSE 0) + (IF Head(words) % 256 # 0 THEN 1 ELSE 0)
       + stringlength(Tail(words))

\* nthchar: the high byte of cell n>>1 for an even n, the low byte for an odd n,
\* 0 behind the chain
nthchar(words, n) ==
  LET top == n \div 2
  IN  IF top >= Len(words) THEN 0
      ELSE IF n % 2 = 0 THEN words[top + 1] \div 256 ELSE words[top + 1] % 256

\* the strings tried, as the reader and the string functions build them
BufStrings ==
  {BuildAll(<<>>, cs) : cs \in UNION {[1 .. n -> BufChars] : n \in 0 .. MaxStrLen}}

LastCell == EditBufSize + MaxBehind - 1

\* EditBufLen after a function that wrote past the end of EditBuf: the value
\* the function computed, or, the write having landed on EditBufLen, one it
\* computed from another value
AfterWrite(past, len, delta) ==
  IF past THEN {n + delta : n \in 0 .. LastCell} \cup {len + delta}
  ELSE {len + delta}

\* EditBuf after buf-init has copied len characters: as copied, or, len being
\* larger than EditBufSize and EditBufLen lying right behind EditBuf, with the
\* two bytes of EditBufLen where characters EditBufSize and EditBufSize + 1 went
AfterInit(copied, len) ==
  IF len > EditBufSize
  THEN {copied, [copied EXCEPT ![EditBufSize] = len % 256, ![EditBufSize + 1] = len \div 256]}
  ELSE {copied}

\* (buf-init s): the characters of s are copied, EditBufLen is assigned last
fn_bufinit(s) ==
  LET len == stringlength(s)
  IN  /\ len <= LastCell + 1
      /\ EditBuf' \in AfterInit([k \in BufCells |-> IF k < len THEN nthchar(s, k) ELSE EditBuf[k]],
                                len)
      /\ EditBufLen' = len
      /\ calc' = [NoCalc EXCEPT !.op = "bufinit", !.in = s, !.s = s, !.fresh = TRUE]

\* (buf-string): buildstring for every character of the buffer
fn_bufstring ==
  /\ calc' = [NoCalc EXCEPT !.op = "bufstring", !.s = calc.s, !.fresh = calc.fresh,
                            !.out = BuildAll(<<>>, [k \in 1 .. EditBufLen |-> EditBuf[k - 1]])]
  /\ UNCHANGED <<EditBuf, EditBufLen>>

buf_valid_index(i) == ~(i < 0 \/ i >= EditBufLen)

\* (buf-char i): the character, nil (-1 here) for an invalid index
fn_bufchar(i) ==
  /\ calc' = [NoCalc EXCEPT !.op = "bufchar", !.i = i, !.s = calc.s, !.fresh = calc.fresh,
                            !.val = IF buf_valid_index(i) THEN EditBuf[i] ELSE -1]
  /\ UNCHANGED <<EditBuf, EditBufLen>>

\* (buf-insert i c)
fn_bufinsert(i, c) ==
  /\ calc' = [NoCalc EXCEPT !.op = "bufinsert", !.i = i, !.c = c, !.old = EditBuf,
                            !.oldlen = EditBufLen]
  /\ IF EditBufLen = EditBufSize THEN UNCHANGED <<EditBuf, EditBufLen>>
     ELSE IF i = EditBufLen \/ buf_valid_index(i)
     THEN /\ EditBufLen <= LastCell
          /\ EditBuf' = [k \in BufCells |->
                           IF k = i THEN c
                           ELSE IF k > i /\ k <= EditBufLen THEN EditBuf[k - 1]
                           ELSE EditBuf[k]]
          /\ EditBufLen' \in AfterWrite(EditBufLen >= EditBufSize, EditBufLen, 1)
          /\ EditBufLen' <= LastCell + 1
     ELSE UNCHANGED <<EditBuf, EditBufLen>>

\* (buf-delete i)
fn_bufdelete(i) ==
  /\ LET undo == calc.op = "bufinsert" /\ calc.i = i
     IN  calc' = [NoCalc EXCEPT !.op = "bufdelete", !.i = i, !.old = EditBuf,
                                !.oldlen = EditBufLen, !.undo = undo,
                                !.prev = IF undo THEN calc.old ELSE <<>>,
                                !.prevlen = IF undo THEN calc.oldlen ELSE 0]
  /\ IF EditBufLen = 0 THEN UNCHANGED <<EditBuf, EditBufLen>>
     ELSE IF buf_valid_index(i)
     THEN /\ EditBuf' = [k \in BufCells |->
                           IF k >= i /\ k < EditBufLen - 1 THEN EditBuf[k + 1]
                           ELSE EditBuf[k]]
          /\ EditBufLen' \in AfterWrite(i < EditBufLen - 1 /\ EditBufLen - 2 >= EditBufSize,
                                        EditBufLen, -1)
          /\ EditBufLen' >= 0
     ELSE UNCHANGED <<EditBuf, EditBufLen>>

BufSame == UNCHANGED <<heapvars, evalvars, lispvars>>

BufInit == BufSame /\ \E s \in BufStrings : fn_bufinit(s)
BufString == BufSame /\ fn_bufstring
BufChar == BufSame /\ \E i \in -1 .. LastCell + 1 : fn_bufchar(i)
BufInsert == BufSame /\ \E i \in -1 .. LastCell + 1, c \in BufChars : fn_bufinsert(i, c)
BufDelete == BufSame /\ \E i \in -1 .. LastCell + 1 : fn_bufdelete(i)

BufNext == BufInit \/ BufString \/ BufChar \/ BufInsert \/ BufDelete

SpecBuf == Init /\ [][BufNext]_vars

\* C20: buf-insert with the buffer not full and 0 <= i <= EditBufLen leaves the
\* old content with c inserted at i and EditBufLen one larger; with the buffer
\* full or i out of range it leaves the content and EditBufLen unchanged.
C20_BufInsert ==
  calc.op = "bufinsert" =>
     IF calc.oldlen < EditBufSize /\ 0 <= calc.i /\ calc.i <= calc.oldlen
     THEN /\ EditBufLen = calc.oldlen + 1
          /\ \A k \in 0 .. calc.oldlen :
                EditBuf[k] = (IF k < calc.i THEN calc.old[k]
                              ELSE IF k = calc.i THEN calc.c
                              ELSE calc.old[k - 1])
     ELSE EditBuf = calc.old /\ EditBufLen = calc.oldlen

\* C21: buf-delete with 0 <= i < EditBufLen leaves the old content with
\* element i removed and EditBufLen one smaller; with the buffer empty or i out
\* of range it leaves the content and EditBufLen unchanged.
C21_BufDelete ==
  calc.op = "bufdelete" =>
     IF 0 <= calc.i /\ calc.i < calc.oldlen
     THEN /\ EditBufLen = calc.oldlen - 1
          /\ \A k \in 0 .. calc.oldlen - 2 :
                EditBuf[k] = (IF k < calc.i THEN calc.old[k] ELSE calc.old[k + 1])
     ELSE EditBuf = calc.old /\ EditBufLen = calc.oldlen

\* C22: after (buf-init s), (buf-string) returns the characters of s and
\* (buf-char i) character i of s for every valid i, and a buf-insert at i
\* followed by a buf-delete at the same i restores the buffer.
C22_BufRoundTrip ==
  /\ (calc.op = "bufstring" /\ calc.fresh) => calc.out = calc.s
  /\ (calc.op = "bufchar" /\ calc.fresh /\ 0 <= calc.i /\ calc.i < stringlength(calc.s)) =>
        calc.val = nthchar(calc.s, calc.i)
  /\ (calc.op = "bufdelete" /\ calc.undo) =>
        /\ EditBufLen = calc.prevlen
        /\ \A k \in 0 .. calc.prevlen - 1 : EditBuf[k] = calc.prev[k]

(* ------------------------------------------------------------------ *)
(* Break loops                                                         *)
(* ------------------------------------------------------------------ *)

MaxBreak == 2   \* (break) is called while BreakLevel is below it

\* eval of (break), a call without arguments: head = cons(eval(fname), NULL),
\* protect(head), then fn_break: BreakLevel++ and repl(env)
EvalBreak ==
  /\ Enters
  /\ ctl.form = NULL
  /\ BreakLevel < MaxBreak
  /\ \E H1 \in {TryCell(EntryHeap, tee, NULL)} :
     \E H2 \in {IF H1.ok THEN TryCell(H1.H, H1.ptr, GCStack) ELSE H1} :
       IF H2.ok
         THEN /\ SetHeap(H2.H)
              /\ GCStack' = H2.ptr
              /\ stack' = Append(stack, [Frame("break") EXCEPT !.head = H1.ptr, !.tail = H1.ptr])
              /\ BreakLevel' = (BreakLevel + 1) % 256
              /\ ctl' = Ctl("prompt")
         ELSE errorend(H2.H) /\ UNCHANGED <<stack, BreakLevel>>
  /\ evrec' = NoEv
  /\ KbdSame
  /\ UNCHANGED <<GlobalEnv, tee, form, env, Flash, MyCode, rec, ops, handler, Flags, lispvars, utilvars>>

\* repl: gc(NULL, env), then "if (BreakLevel && line == nil) return": fn_break
\* decrements BreakLevel and returns nil to eval, which unprotects; the repl
\* that loop() called returns to loop(), which is called again: ulisperror()
\* and repl(NULL)
ReplReturn ==
  /\ ctl.m = "prompt"
  /\ BreakLevel # 0
  /\ \E H0 \in {gc(Workspace, GlobalEnv, GCStack, NULL, NULL)} :
       IF stack # <<>>
         THEN /\ CallDone(H0, NULL)
              /\ BreakLevel' = BreakLevel - 1
              /\ UNCHANGED Flags
         ELSE /\ SetHeap(H0)
              /\ BreakLevel' = 0
              /\ Flags' = clrflag(Flags, "NOESC")
              /\ UNCHANGED <<GCStack, stack, ctl>>
  /\ evrec' = NoEv
  /\ KbdSame
  /\ UNCHANGED <<GlobalEnv, tee, form, env, Flash, MyCode, rec, ops, handler, lispvars, utilvars>>

\* the end of sp_defvar for the one global variable of the run: pair =
\* value(var->name, GlobalEnv); cdr(pair) = val if there is one, else
\* push(cons(var, val), GlobalEnv); the symbol is returned
DefvarSet(H, val) ==
  IF GlobalEnv # NULL
    THEN /\ SetHeap(Heap(SetCdr(H.W, car(H.W, GlobalEnv), val), H.Freelist, H.Freespace))
         /\ ctl' = [Ctl("ret") EXCEPT !.val = tee]
         /\ UNCHANGED <<GlobalEnv, GCStack>>
    ELSE \E P \in {TryCell(H, tee, val)} :
         \E G \in {IF P.ok THEN TryCell(P.H, P.ptr, GlobalEnv) ELSE P} :
           IF G.ok
             THEN /\ SetHeap(G.H)
                  /\ GlobalEnv' = G.ptr
                  /\ ctl' = [Ctl("ret") EXCEPT !.val = tee]
                  /\ UNCHANGED GCStack
             ELSE errorend(G.H) /\ UNCHANGED GlobalEnv

DefvarRest ==
  UNCHANGED <<tee, form, env, Flash, MyCode, rec, ops, BreakLevel, handler, lispvars, utilvars>>

\* sp_defvar: with an initial value setflag(NOESC) and its eval, without one
\* the variable is set to nil
EvalDefvar ==
  /\ Enters
  /\ ctl.form = NULL
  /\ \E init \in BOOLEAN :
       IF init
         THEN /\ SetHeap(EntryHeap)
              /\ stack' = Append(stack, Frame("defvar"))
              /\ Flags' = setflag(Flags, "NOESC")
              /\ ctl' = Ctl("eval")
              /\ UNCHANGED <<GlobalEnv, GCStack>>
         ELSE DefvarSet(EntryHeap, NULL) /\ UNCHANGED <<stack, Flags>>
  /\ evrec' = NoEv
  /\ DefvarRest /\ KbdSame

\* the initial value arrives: clrflag(NOESC) and the variable is set
RetDefvar ==
  /\ ctl.m = "ret"
  /\ stack # <<>>
  /\ Top.k = "defvar"
  /\ Flags' = clrflag(Flags, "NOESC")
  /\ DefvarSet(CurHeap, ctl.val)
  /\ stack' = Below
  /\ evrec' = NoEv
  /\ DefvarRest /\ KbdSame

\* the evaluator with break loops, ignore-errors and defvar
BreakNext ==
  \/ EvalDefvar \/ RetDefvar \/ ReplRead \/ ReplReturn \/ EvalOverflow \/ EvalError \/ EvalAtom
  \/ EvalBreak \/ EvalIgnoreErrors
  \/ RetRepl \/ RetBody
  \/ LandTop \/ LandIgnore

SpecBreak == Init /\ [][BreakNext]_vars

\* C23 (as stated): an uncaught error returns control to the prompt at the
\* break level in which it was raised, or a deeper one, and leaves the global
\* environment as it was.
C23_ErrorKeepsBreakLevel ==
  [][LandTop => /\ ctl'.m = "prompt"
                /\ BreakLevel' >= BreakLevel
                /\ GlobalEnv' = GlobalEnv]_vars

\* C23 (amended): an uncaught error returns control to the prompt of the top
\* level, break level 0, whatever the break level in which it was raised; the
\* break loops and the functions waiting in them are left, and the global
\* environment and the cells it holds are as they were.
C23_ErrorToTopLevel ==
  [][(ctl.m = "throw" /\ handler = 0) =>
        /\ ctl'.m = "prompt"
        /\ BreakLevel' = 0
        /\ stack' = <<>>
        /\ GlobalEnv' = GlobalEnv
        /\ \A i \in Reach(Workspace, {GlobalEnv}) : Workspace'[i] = Workspace[i]]_vars

\* an error raised at the prompt of a break loop has reached the top level
C23_LeftBreakLoop ==
  /\ ctl.m = "prompt"
  /\ BreakLevel = 0
  /\ evrec.op = "landtop"
  /\ evrec.level >= 1

(* ------------------------------------------------------------------ *)
(* Escape while NOESC is set                                           *)
(* ------------------------------------------------------------------ *)

\* the evaluator with defvar and the keyboard in line mode
EscNext ==
  \/ ReplRead \/ EvalOverflow \/ EvalEscape \/ EvalError \/ EvalAtom
  \/ EvalDefvar \/ RetDefvar \/ RetRepl \/ LandTop \/ KeyPress

SpecEsc == Init /\ [][EscNext]_vars

\* C24: while NOESC is set, as during the evaluation of the initial value of a
\* defvar, eval does not raise 'escape!', whatever keys are pressed.
C24_NoEscapeUnderNoesc ==
  [][EvalEscape => ~tstflag(Flags, "NOESC")]_vars

(* ------------------------------------------------------------------ *)
(* do and do*                                                          *)
(* ------------------------------------------------------------------ *)
\* A loop (do ((var init step) ...) (test) body) over the variables a and b:
\* an init is 0 or a variable, a step 1 or a variable, "none" where the form is
\* left out; the end test is nil or a variable, true when it is not nil; the
\* body is empty or (return).  Values are "nil", "0" and "1".

MaxVars == 2

DoNames == {"a", "b"}

\* (var), (var init) and (var init step)
Varforms ==
  [var : DoNames, init : {"none"}, step : {"none"}]
    \cup [var : DoNames, init : {"0", "a"}, step : {"none", "1", "a", "b"}]

DoTests == {"nil"} \cup DoNames

DoLists == UNION {[1 .. n -> Varforms] : n \in 0 .. MaxVars}

\* eval of a constant or of a symbol in the environment ev, a list of pair
\* cells with the newest first; there are no global variables
doeval(e, cells, ev) ==
  IF e \in {"nil", "0", "1"} THEN [err |-> "", val |-> e]
  ELSE LET found == {k \in 1 .. Len(ev) : cells[ev[k]].var = e}
       IN  IF found = {} THEN [err |-> "undefined", val |-> "nil"]
           ELSE [err |-> "", val |-> cells[ev[CHOOSE k \in found : \A j \in found : k <= j]].val]

RECURSIVE doinit(_, _, _, _)
\* dobody's first loop: init is evaluated in env, which is the environment
\* outside the loop unless star, pair = cons(var, init) is pushed on newenv,
\* and cons(cons(step, pair), NULL) is appended behind head
doinit(varlist, D, newenv, star) ==
  IF varlist = <<>> THEN [D EXCEPT !.i = 0]
  ELSE LET varform == Head(varlist)
           R == IF varform.init = "none" THEN [err |-> "", val |-> "nil"]
                ELSE doeval(varform.init, D.cells, IF star THEN newenv ELSE <<>>)
           pair == Len(D.cells) + 1
       IN  IF R.err # "" THEN [D EXCEPT !.err = R.err, !.gcs = <<>>]
           ELSE doinit(Tail(varlist),
                       [D EXCEPT !.cells = Append(D.cells, [var |-> varform.var, val |-> R.val]),
                                 !.list = Append(D.list, [step |-> varform.step, pair |-> pair])],
                       <<pair>> \o newenv, star)

\* the environment of the loop: every pair, the last one made first
DoEnv(D) == [k \in 1 .. Len(D.cells) |-> Len(D.cells) + 1 - k]

RECURSIVE dopop(_, _)
\* while (count > 0) { cdr(car(GCStack)) = car(cdr(GCStack)); pop; pop; }
dopop(D, count) ==
  IF count = 0 THEN D
  ELSE dopop([D EXCEPT !.cells[D.gcs[1]].val = D.gcs[2], !.gcs = SubSeq(D.gcs, 3, Len(D.gcs))],
             count - 1)

RECURSIVE dostep(_, _, _)
\* dobody's stepping loop: each step is evaluated in the loop's environment;
\* with star the pair is assigned at once, without it the value and the pair
\* are pushed on GCStack and assigned when every step has been evaluated
dostep(varlist, D, count) ==
  IF varlist = <<>> THEN dopop(D, count)
  ELSE LET varform == Head(varlist)
       IN  IF varform.step = "none" THEN dostep(Tail(varlist), D, count)
           ELSE LET R == doeval(varform.step, D.cells, DoEnv(D))
                IN  IF R.err # "" THEN [D EXCEPT !.err = R.err, !.gcs = <<>>]
                    ELSE IF D.star
                    THEN dostep(Tail(varlist), [D EXCEPT !.cells[varform.pair].val = R.val], count)
                    ELSE dostep(Tail(varlist),
                                [D EXCEPT !.gcs = <<varform.pair, R.val>> \o D.gcs], count + 1)

DoSame == UNCHANGED <<heapvars, evalvars, lispvars, EditBuf, EditBufLen>>

\* dobody up to the first end test: head = cons(NULL, NULL), protect(head),
\* the variables
DoEnter ==
  /\ calc.op = "doform"
  /\ LET D == doinit(calc.in, [calc EXCEPT !.gcs = <<"head">>], <<>>, calc.star)
     IN  calc' = [D EXCEPT !.op = IF D.err = "" THEN "doloop" ELSE "dodone"]
  /\ DoSame

\* one round of dobody's loop: the end test, the body, the steps; when the
\* test is true unprotect() and the results, when RETURNFLAG is set after a
\* body form the flag is cleared and the form's value returned
DoRound ==
  /\ calc.op \in {"doloop", "dostepped"}
  /\ calc.n < MaxIter
  /\ LET T == doeval(calc.test, calc.cells, DoEnv(calc))
     IN  IF T.err # "" THEN calc' = [calc EXCEPT !.op = "dodone", !.err = T.err, !.gcs = <<>>]
         ELSE IF T.val # "nil"
         THEN calc' = [calc EXCEPT !.op = "dodone", !.gcs = Tail(calc.gcs)]
         ELSE IF calc.ret THEN calc' = [calc EXCEPT !.op = "dodone"]
         ELSE LET D == dostep(calc.list, [calc EXCEPT !.old = calc.cells, !.n = calc.n + 1], 0)
              IN  calc' = [D EXCEPT !.op = IF D.err = "" THEN "dostepped" ELSE "dodone"]
  /\ DoSame

DoNext == DoEnter \/ DoRound

InitDo ==
  /\ HeapInit /\ EvalInit /\ LispQuiet
  /\ EditBuf = [i \in BufCells |-> 0]
  /\ EditBufLen = 0
  /\ \E varlist \in DoLists, star \in BOOLEAN, test \in DoTests, ret \in BOOLEAN :
        calc = [NoCalc EXCEPT !.op = "doform", !.in = varlist, !.star = star,
                              !.test = test, !.ret = ret]

SpecDo == InitDo /\ [][DoNext]_vars

\* the value of the step of entry k of the list with the pairs as in cells
StepValue(D, cells, k) == doeval(D.list[k].step, cells, DoEnv(D)).val

\* every step evaluated with the pairs as they were before the round
InParallel(D) ==
  \A k \in 1 .. Len(D.list) :
     D.cells[k].val = IF D.list[k].step = "none" THEN D.old[k].val
                      ELSE StepValue(D, D.old, k)

RECURSIVE SteppedUpTo(_, _)
\* the pairs after the steps of the first k variables, each evaluated with
\* the new values of the variables before it
SteppedUpTo(D, k) ==
  IF k = 0 THEN D.old
  ELSE LET before == SteppedUpTo(D, k - 1)
       IN  IF D.list[k].step = "none" THEN before
           ELSE [before EXCEPT ![k].val = StepValue(D, before, k)]

InSequence(D) == D.cells = SteppedUpTo(D, Len(D.list))

\* C25: do steps its variables sequentially, each step seeing the new values
\* of the variables before it, and do* steps them in parallel, every step
\* seeing the old values.
C25_DoSequentialDostarParallel ==
  calc.op = "dostepped" => IF calc.star THEN InParallel(calc) ELSE InSequence(calc)

(* ------------------------------------------------------------------ *)
(* mod                                                                 *)
(* ------------------------------------------------------------------ *)

MaxMod == 4

\* the operands tried: the small integers and the ends of the int range
ModArgs == (-MaxMod .. MaxMod) \cup {INT_MIN, INT_MIN + 1, INT_MAX}

Abs(x) == IF x < 0 THEN -x ELSE x

\* arg1 % arg2 of C for arg2 # 0: the quotient is truncated towards zero, the
\* remainder has the sign of arg1; INT_MIN % -1, whose quotient is not an int,
\* is undefined and may give any int
remainder(arg1, arg2) ==
  IF arg1 = INT_MIN /\ arg2 = -1 THEN ModArgs
  ELSE LET r == Abs(arg1) - (Abs(arg1) \div Abs(arg2)) * Abs(arg2)
       IN  {IF arg1 < 0 THEN -r ELSE r}

\* fn_mod: r = arg1 % arg2; if ((arg1<0) != (arg2<0)) r = r + arg2
fn_mod(arg1, arg2) ==
  IF arg2 = 0 THEN {[err |-> "division by zero", val |-> 0]}
  ELSE {[err |-> "", val |-> IF (arg1 < 0) # (arg2 < 0) THEN r + arg2 ELSE r] :
           r \in remainder(arg1, arg2)}

ModApply ==
  /\ calc.op = "modargs"
  /\ \E R \in fn_mod(calc.i, calc.c) :
        calc' = [calc EXCEPT !.op = "mod", !.err = R.err, !.val = R.val]
  /\ UNCHANGED <<heapvars, evalvars, lispvars, EditBuf, EditBufLen>>

InitMod ==
  /\ HeapInit /\ EvalInit /\ LispQuiet
  /\ EditBuf = [i \in BufCells |-> 0]
  /\ EditBufLen = 0
  /\ \E a \in ModArgs, b \in ModArgs : calc = [NoCalc EXCEPT !.op = "modargs", !.i = a, !.c = b]

SpecMod == InitMod /\ [][ModApply]_vars

\* b, which is not 0, divides x
Divides(b, x) == Abs(x) % Abs(b) = 0

\* C26: (mod a b) with b # 0 returns r with a - r divisible by b, and r is 0
\* or has the sign of b and |r| < |b|; with b = 0 it fails with 'division by
\* zero'.
C26_ModResult ==
  calc.op = "mod" =>
     IF calc.c = 0 THEN calc.err = "division by zero"
     ELSE /\ calc.err = ""
          /\ Divides(calc.c, calc.i - calc.val)
          /\ \/ calc.val = 0
             \/ /\ (calc.val < 0) = (calc.c < 0)
                /\ Abs(calc.val) < Abs(calc.c)

(* ------------------------------------------------------------------ *)
(* load-image without a saved image                                    *)
(* ------------------------------------------------------------------ *)

\* the instruction words tried
CodeWords == {258, 772}

\* putcode at the start of the buffer: MyCode[origin+pc] = lo, MyCode[origin+pc+1] = hi
PutCode ==
  /\ Step
  /\ \E code \in CodeWords :
        MyCode' = [MyCode EXCEPT ![0] = code % 256, ![1] = (code \div 256) % 256]
  /\ UNCHANGED <<Workspace, Freelist, Freespace, GlobalEnv, GCStack, tee, form, env, Flash, rec>>

\* the stored cell count of a flash area that holds no image
NoImageSizes == {0, Word16 - 1}

\* the flash area never written, or written with a cell count of 0
InitNoImage ==
  /\ EvalInit /\ LispQuiet /\ UtilQuiet
  /\ LET T == bsymbol(initworkspace, TEE)
     IN  /\ Workspace = T.H.W
         /\ Freelist = T.H.Freelist
         /\ Freespace = T.H.Freespace
         /\ tee = T.ptr
  /\ GlobalEnv = NULL /\ GCStack = NULL /\ form = NULL /\ env = NULL
  /\ MyCode = [i \in CodeCells |-> 0]
  /\ rec = NoRec /\ ops = 0
  /\ \E n \in NoImageSizes : Flash = [ErasedFlash EXCEPT !.imagesize = n]

LoadNext == NewCons \/ Protect \/ Defvar \/ PutCode \/ LoadImage

SpecLoad == InitNoImage /\ [][LoadNext]_vars

NoSavedImage == Flash.imagesize = 0 \/ Flash.imagesize = Word16 - 1

\* C27 (as stated): load-image with no saved image fails with 'no saved
\* image' and leaves GlobalEnv, GCStack, the machine-code buffer and every
\* cell of the arena unchanged.
C27_NoImageNothingChanged ==
  [][(LoadImage /\ NoSavedImage) =>
        /\ rec'.op = "noimage"
        /\ UNCHANGED <<GlobalEnv, GCStack, MyCode, Workspace>>]_vars

\* C27 (amended): load-image with no saved image fails with 'no saved image'
\* and leaves GlobalEnv, the machine-code buffer, every cell of the arena and
\* the free list unchanged; GCStack is cleared by the error.
C27_NoImageOnlyGCStackCleared ==
  [][(LoadImage /\ NoSavedImage) =>
        /\ rec'.op = "noimage"
        /\ UNCHANGED <<GlobalEnv, MyCode, Workspace, Freelist, Freespace>>
        /\ GCStack' = NULL]_vars

\* a load-image has failed with something on GCStack, in the global
\* environment and in the machine-code buffer
C27_FailedLoad ==
  /\ rec.op = "noimage"
  /\ rec.gs # NULL
  /\ GlobalEnv # NULL
  /\ MyCode[0] # 0

\* C28: every push onto GCStack made while a form is evaluated is popped on
\* every exit path: when the eval of a do or do* loop returns normally, also
\* when the loop is left through return, GCStack is what it was when the loop
\* was entered (nothing of dobody is left on it).
C28_GCStackRestored ==
  (calc.op = "dodone" /\ calc.err = "") => calc.gcs = <<>>

(* ------------------------------------------------------------------ *)
(* The handler pointer                                                 *)
(* ------------------------------------------------------------------ *)

\* the evaluator with unwind-protect and ignore-errors, without function calls
HandlerNext ==
  \/ ReplRead \/ EvalOverflow \/ EvalError \/ EvalAtom
  \/ EvalUnwindProtect \/ EvalIgnoreErrors
  \/ RetRepl \/ RetProtected \/ RetCleanup \/ RetBody
  \/ LandTop \/ LandUnwind \/ LandIgnore

SpecHandler == Init /\ [][HandlerNext]_vars

\* the dynamic_handler of the frame is the one errors would reach if no frame
\* above it had one: an ignore-errors in its body, an unwind-protect in its
\* protected form
Installed(F) == F.k = "ignoreerrors" \/ (F.k = "unwindprotect" /\ F.phase = "form")

\* the innermost installed handler among the first n frames of st, 0 (the
\* top-level handler) if there is none
Nearest(st, n) ==
  LET inst == {i \in 1 .. n : Installed(st[i])}
  IN  IF inst = {} THEN 0 ELSE CHOOSE i \in inst : \A k \in inst : k <= i

\* the handler frame at i stops handling in this step, the frames below it
\* staying as they are: it is removed, by its return or by a signal passing
\* through it, or it turns to its cleanup forms
Leaves(i) ==
  /\ stack[i].k \in {"unwindprotect", "ignoreerrors"}
  /\ \/ i > Len(stack')
     \/ Installed(stack[i]) /\ ~Installed(stack'[i])
  /\ \A j \in 1 .. (i - 1) : j <= Len(stack') /\ stack'[j] = stack[j]

\* C29: an error is delivered to the innermost handler whose form is still
\* being evaluated, else to the top-level handler, never to one whose form has
\* been left: handler always designates that handler, and when an
\* unwind-protect or ignore-errors finishes, by a return or by a signal,
\* handler is again the handler that was innermost when it was entered.
C29_NearestHandler ==
  /\ [](handler = Nearest(stack, Len(stack)))
  /\ [][\A i \in 1 .. Len(stack) : Leaves(i) => handler' = Nearest(stack, i - 1)]_vars

\* an error raised in an ignore-errors inside the protected form of an
\* unwind-protect has been caught, and the handler is the unwind-protect's
C29_CaughtInside ==
  /\ evrec.op = "ignoreerrors"
  /\ evrec.sig
  /\ stack # <<>>
  /\ Installed(stack[Len(stack)])
  /\ stack[Len(stack)].k = "unwindprotect"
  /\ handler = Len(stack)

(* ------------------------------------------------------------------ *)
(* The free-cell counter                                               *)
(* ------------------------------------------------------------------ *)

\* the number of cells met following the free list from p, at most fuel
RECURSIVE FreeCount(_, _, _)
FreeCount(W, p, fuel) ==
  IF p = NULL \/ fuel = 0 THEN 0
  ELSE 1 + FreeCount(W, cdr(W, p), fuel - 1)

\* allocations, collections, compactions and image saves and loads
FreeNext ==
  \/ NewCons \/ Protect \/ Defvar \/ EvalGc \/ ReplGc
  \/ SaveCompact \/ SaveWrite \/ LoadImage \/ LoadReturn

SpecFree == Init /\ [][FreeNext]_vars

ListLength(H) == FreeCount(H.W, H.Freelist, WORKSPACESIZE + 1)

\* C30: Freespace equals the number of cells on the free list in every state
\* reached by allocations, collections, compactions and image loads:
\* initworkspace makes both WORKSPACESIZE, myalloc lowers both by one, myfree
\* of a cell in use raises both by one, and sweep rebuilds both together.
C30_FreespaceIsListLength ==
  /\ Freespace = ListLength(CurHeap)
  /\ initworkspace.Freespace = WORKSPACESIZE
  /\ ListLength(initworkspace) = WORKSPACESIZE
  /\ Freespace > 0 =>
       /\ myalloc(CurHeap).Freespace = Freespace - 1
       /\ ListLength(myalloc(CurHeap)) = ListLength(CurHeap) - 1
  /\ \A i \in Cells \ OnFreeList :
       /\ myfree(CurHeap, Addr(i)).Freespace = Freespace + 1
       /\ ListLength(myfree(CurHeap, Addr(i))) = ListLength(CurHeap) + 1
  /\ LET H == sweep(markall(Workspace, <<tee, GlobalEnv, GCStack>>))
     IN  H.Freespace = ListLength(H)

\* an image has been loaded over an arena that had been allocated from,
\* compacted and saved, and cells are both in use and free
C30_AfterLoad ==
  /\ rec.op = "loaded"
  /\ Freespace > 0
  /\ Freespace < WORKSPACESIZE
  /\ GlobalEnv # NULL

(* ------------------------------------------------------------------ *)
(* Mark bits                                                           *)
(* ------------------------------------------------------------------ *)

\* allocations of pairs and strings, collections and compactions
MarkNext ==
  \/ NewCons \/ NewString \/ Protect \/ Defvar
  \/ EvalGc \/ ReplGc \/ SaveCompact

SpecMark == Init /\ [][MarkNext]_vars

\* the arena as compactimage hands it to sweep
BeforeSweep(W, ge, gs, arg, over) ==
  LET W0 == markall(W, <<tee, ge, gs>>)
  IN  compactloop([W |-> W0, ge |-> ge, gs |-> gs, arg |-> arg,
                   firstfree |-> nextfree(W0, 0, over),
                   fwd |-> [i \in Cells |-> i]],
                  WORKSPACESIZE - 1, over).W

\* what sweep makes of the arena M: the marked cells with the bit cleared and
\* off the free list, the others on it with the first field cleared
Swept(M, W, fl) ==
  \A i \in Cells :
    IF marked(M, Addr(i))
      THEN W[i] = [M[i] EXCEPT !.car = ClrMark(M[i].car)]
           /\ i \notin FreeCells(W, fl, WORKSPACESIZE)
      ELSE W[i].car = NULL /\ i \in FreeCells(W, fl, WORKSPACESIZE)

\* no cell of the arena has the mark bit set
NoMarks == \A i \in Cells : ~marked(Workspace, Addr(i))

\* C31: mark bits exist only inside a collection: no cell has the mark bit
\* set once gc or compactimage has returned, and every cell without the bit
\* at sweep time is on the rebuilt free list with its first field cleared.
C31_MarksOnlyInsideGc ==
  /\ []NoMarks
  /\ [][(EvalGc \/ ReplGc) =>
          Swept(markall(Workspace, gcroots(GlobalEnv, GCStack, rec'.f, env)),
                Workspace', Freelist')]_vars
  /\ [][SaveCompact =>
          \E over \in 0 .. MaxOverrun :
            Swept(BeforeSweep(Workspace, GlobalEnv, GCStack, rec'.f, over),
                  Workspace', Freelist')]_vars

\* a collection has swept an arena holding both marked and unmarked cells in
\* use, a string chain among the marked
C31_SweptSome ==
  /\ rec.op \in {"gc", "compactimage"}
  /\ Freespace > 0
  /\ Freespace < WORKSPACESIZE
  /\ \E i \in Cells : Workspace[i].car = STRINGTYPE /\ Workspace[i].cdr # NULL
  /\ \E i \in Cells : rec.W[i].car # NULL /\ i \in OnFreeList

(* ------------------------------------------------------------------ *)
(* Symbol names                                                        *)
(* ------------------------------------------------------------------ *)

\* builtin indexes are below ENDFUNCTIONS
ENDFUNCTIONS == 1536

\* the longest name pack40 is applied to
MaxName == 3

\* the characters of the names tried: a z A 0 9 - $ \ and one above 127
SymChars == {97, 122, 65, 48, 57, 45, 36, 92, 200}

Names == UNION {[1 .. k -> SymChars] : k \in 1 .. MaxName}

\* buffer[i] of the NUL-terminated buffer, i from 0
At(buffer, i) == IF i < Len(buffer) THEN buffer[i + 1] ELSE 0

\* toradix40 (char is signed: a character above 127 is below every letter)
toradix40(ch) ==
  IF ch = 0 THEN 0
  ELSE IF ch >= 48 /\ ch <= 57 THEN ch - 48 + 1
  ELSE IF ch = 45 THEN 37
  ELSE IF ch = 42 THEN 38
  ELSE IF ch = 36 THEN 39
  ELSE LET c == IF (ch \div 32) % 2 = 1 THEN ch ELSE ch + 32
       IN  IF ch < 128 /\ c >= 97 /\ c <= 122 THEN c - 97 + 11 ELSE -1

\* pack40: three rounds of x = x * 40 + toradix40(buffer[j]) in a 16-bit int
RECURSIVE pack40from(_, _, _, _)
pack40from(buffer, i, j, x) ==
  IF i >= 3 THEN x
  ELSE pack40from(buffer, i + 1, IF At(buffer, j) # 0 THEN j + 1 ELSE j,
                  Int16(x * 40 + toradix40(At(buffer, j))))

\* the value as twist receives it in its 16-bit parameter
pack40(buffer) == pack40from(buffer, 0, 0, 0) % Word16

\* valid40: the first character is a letter, - * or $, the others radix-40
RECURSIVE valid40from(_, _, _)
valid40from(buffer, i, t) ==
  IF i >= 3 THEN TRUE
  ELSE IF toradix40(At(buffer, i)) < t THEN FALSE
  ELSE IF At(buffer, i) = 0 THEN TRUE
  ELSE valid40from(buffer, i + 1, 0)

valid40(buffer) == valid40from(buffer, 0, 11)

\* twist and untwist of a 16-bit value
TwistApply ==
  /\ calc.op = "word"
  /\ calc' = [calc EXCEPT !.op = "twist", !.val = twist(calc.in),
                          !.out = untwist(twist(calc.in))]
  /\ UNCHANGED <<heapvars, evalvars, lispvars, EditBuf, EditBufLen>>

\* nextitem's test of a name and the identifier of a short one
PackApply ==
  /\ calc.op = "name"
  /\ calc' = [calc EXCEPT !.op = "pack",
                          !.test = Len(calc.s) <= 3 /\ valid40(calc.s),
                          !.in = pack40(calc.s),
                          !.val = twist(pack40(calc.s))]
  /\ UNCHANGED <<heapvars, evalvars, lispvars, EditBuf, EditBufLen>>

InitTwist ==
  /\ HeapInit /\ EvalInit /\ LispQuiet
  /\ EditBuf = [i \in BufCells |-> 0]
  /\ EditBufLen = 0
  /\ \/ \E x \in 0 .. (Word16 - 1) : calc = [NoCalc EXCEPT !.op = "word", !.in = x]
     \/ \E b \in Names : calc = [NoCalc EXCEPT !.op = "name", !.s = b]

SpecTwist == InitTwist /\ [][TwistApply \/ PackApply]_vars

\* C33: short and long identifiers never collide: untwist(twist(x)) = x for
\* every 16-bit x; the twist of every value from PACKEDS up, so of every
\* packed name and of BUILTINS + a builtin index, has non-zero low two bits;
\* a valid name of up to three characters packs to a value in
\* [PACKEDS, BUILTINS); and longnamep holds of NULL and every cell address.
C33_ShortLongDisjoint ==
  /\ calc.op = "twist" =>
       /\ calc.out = calc.in
       /\ calc.in >= PACKEDS => ~longnamep(calc.val)
  /\ (calc.op = "pack" /\ calc.test) =>
       /\ calc.in >= PACKEDS
       /\ calc.in < BUILTINS
       /\ ~longnamep(calc.val)
  /\ BUILTINS + ENDFUNCTIONS - 1 < Word16
  /\ longnamep(NULL)
  /\ \A i \in Cells : longnamep(Addr(i))

\* a valid name whose packed value does not fit a signed 16-bit int has been
\* twisted
C33_PackedHigh ==
  /\ calc.op = "pack"
  /\ calc.test
  /\ calc.in > 32767
  /\ calc.val % 4 = 3

(* ------------------------------------------------------------------ *)
(* Interning                                                           *)
(* ------------------------------------------------------------------ *)

\* the names read: xy, a\b and wxyz (none is the name of a builtin)
ReadNames == {<<120, 121>>, <<97, 92, 98>>, <<119, 120, 121, 122>>}

\* the characters lispstring hands to buildstring: a backslash is dropped and
\* the character behind it taken as it is
RECURSIVE Unescape(_)
Unescape(buffer) ==
  IF buffer = <<>> THEN <<>>
  ELSE IF Head(buffer) = 92 /\ Len(buffer) >= 2
    THEN <<buffer[2]>> \o Unescape(SubSeq(buffer, 3, Len(buffer)))
  ELSE <<Head(buffer)>> \o Unescape(Tail(buffer))

\* the words eqsymbols compares the chain with: the characters of the buffer
\* as they are, two to a word
RECURSIVE PackBuffer(_)
PackBuffer(buffer) ==
  IF buffer = <<>> THEN <<>>
  ELSE LET hi == (SignExt(buffer[1]) * 256) % Word16
       IN  IF Len(buffer) = 1 THEN <<hi>>
           ELSE <<IF buffer[2] >= 128 THEN 65280 + buffer[2] ELSE hi + buffer[2]>>
                \o PackBuffer(SubSeq(buffer, 3, Len(buffer)))

\* internlong(buffer): the scan with eqsymbols, else lispstring(buffer) retyped
internlongbuffer(H, buffer) ==
  IF LongSymbolCells(H.W, PackBuffer(buffer)) # {}
    THEN Built(H, Addr(Lowest(LongSymbolCells(H.W, PackBuffer(buffer)))))
  ELSE LET str == lispstring(H, BuildAll(<<>>, Unescape(buffer)))
       IN  IF ~str.ok THEN str
           ELSE Built(Heap(SetCar(str.H.W, str.ptr, SYMBOL), str.H.Freelist, str.H.Freespace),
                      str.ptr)

\* the end of nextitem for a name that is no builtin
nextsymbol(H, buffer) ==
  IF Len(buffer) <= 3 /\ valid40(buffer)
    THEN intern(H, twist(pack40(buffer)))
    ELSE internlongbuffer(H, buffer)

\* read of a symbol
ReadSymbol == \E b \in ReadNames : Step /\ Finish(nextsymbol(CurHeap, b))

\* the read of the name b
ReadName(b) == Step /\ Finish(nextsymbol(CurHeap, b))

InternNext ==
  \/ ReadSymbol \/ NewCons \/ Protect \/ Unprotect \/ Defvar \/ EvalGc \/ ReplGc

SpecIntern == Init /\ [][InternNext]_vars

\* the symbol cells a read of the name b has made
NamedCells(W, b) ==
  IF Len(b) <= 3 /\ valid40(b)
    THEN SymbolCells(W, twist(pack40(b)))
    ELSE LongSymbolCells(W, BuildAll(<<>>, Unescape(b)))

\* C32: symbols are interned: while a symbol made by reading a name is
\* reachable, reading the same name again yields the same identifier (short
\* name) or the same chain-head cell (long name).
C32_Interned ==
  [][\A b \in ReadNames :
       (ReadName(b) /\ form' # NULL) =>
          \A q \in NamedCells(Workspace, b)
                   \cap Reach(Workspace, {tee, GlobalEnv, GCStack, form, env}) :
             /\ cdr(Workspace', form') = Workspace[q].cdr \/ longnamep(Workspace[q].cdr)
             /\ longnamep(Workspace[q].cdr) => form' = Addr(q)]_vars

(* ------------------------------------------------------------------ *)
(* Captured bindings                                                   *)
(* ------------------------------------------------------------------ *)

\* (let ((x 1)) (let ((x 2)) (let ((f (lambda params x))) (let ((x 5)) call))))
Shadowed(params, call) ==
  L(<<S("let"), L(<<L(<<S("x"), N(1)>>)>>),
    L(<<S("let"), L(<<L(<<S("x"), N(2)>>)>>),
      L(<<S("let"), L(<<L(<<S("f"), L(<<S("lambda"), params, S("x")>>)>>)>>),
        L(<<S("let"), L(<<L(<<S("x"), N(5)>>)>>), call>>)>>)>>)>>)

\* f without parameters: the body reads the captured x
SeesCaptured ==
  {Shadowed(nil, L(<<S("f")>>)), Shadowed(nil, L(<<S("funcall"), S("f")>>))}

\* f with the parameter x: the body reads the parameter
SeesParameter ==
  {Shadowed(L(<<S("x")>>), L(<<S("f"), N(9)>>)),
   Shadowed(L(<<S("x")>>), L(<<S("funcall"), S("f"), N(9)>>)),
   Shadowed(L(<<S("&optional"), S("x")>>), L(<<S("f")>>))}

ClosurePrograms ==
  {<<a, b>> : a \in SeesCaptured \cup SeesParameter, b \in SeesCaptured \cup SeesParameter}

InitClosure ==
  /\ HeapInit /\ EvalInit /\ UtilQuiet
  /\ Input \in ClosurePrograms
  /\ evals = <<>>
  /\ pairs = <<>>
  /\ genv = <<>>
  /\ TraceFn = [i \in 1 .. TRACEMAX |-> ""]
  /\ lrec = NoLrec

ClosureNext ==
  \/ ReplEval \/ ReplPrint \/ SelfEval \/ SymbolValue
  \/ LetEnter \/ LetAssign \/ LetBound \/ PrognStep \/ ReturnNested \/ LambdaForm
  \/ CallEnter \/ CallValue \/ CallBuiltin \/ CallClosure \/ Apply

SpecClosure == InitClosure /\ [][ClosureNext]_vars

\* the environment a closure body starts in: the new pairs of the parameters,
\* then the bindings captured when the closure was made, innermost first as
\* they stood then, then the environment of the call
BodyEnv(e, made, P, P1) ==
  LET n == Len(P1) - Len(P)
      B == Bindings(made)
  IN  /\ Len(e) >= n + Len(B)
      /\ \A i \in 1 .. n : e[i] = Len(P1) + 1 - i
      /\ SubSeq(e, n + 1, n + Len(B)) = B

\* C34: applying a closure re-pushes the captured bindings in their original
\* shadowing order and the parameters in front of them: of a variable bound
\* in two captured frames the body sees the innermost, and a parameter of the
\* same name shadows both.
C34_CapturedOrder ==
  /\ [](lrec.fin =>
         /\ lrec.line \in SeesCaptured => (lrec.err = "" /\ lrec.val = Num(2))
         /\ lrec.line \in SeesParameter => (lrec.err = "" /\ lrec.val \in {Num(9), nil}))
  /\ [][(CallClosure /\ Len(evals') = Len(evals) /\ Cur'.pc = "progn") =>
          BodyEnv(Cur'.env, lrec.lam.env, pairs, pairs')]_vars
  /\ [][(Apply /\ Len(evals') = Len(evals) /\ Cur'.pc = "progn") =>
          BodyEnv(Cur'.env, lrec.lam.env, pairs, pairs')]_vars

\* both programs have been run: the closure over the two x has been called
\* where the caller's x is 5, without and with a parameter x
C34_BothCalled ==
  /\ lrec.fin
  /\ Input = <<>>
  /\ lrec.line \in SeesParameter
  /\ lrec.val = Num(9)
  /\ Len(Bindings(lrec.lam.env)) = 2
(* ------------------------------------------------------------------ *)
(* The raw key buffer under the keyboard interrupt                     *)
(*                                                                     *)
(* KybdBuf[0 .. WritePtr-1] are the keys stored and not yet read.      *)
(* GetRawKey runs with interrupts enabled and WritePtr-- is a load, a  *)
(* subtraction and a store of a volatile int, so the interrupt can run *)
(* between any two of GetRawKeyLoad, GetRawKeyStore and GetRawKeyRead. *)
(* ------------------------------------------------------------------ *)

\* C35: no raw keystroke is lost or duplicated under any interleaving of the
\* keyboard interrupt with GetRawKey: a call of GetRawKey takes exactly one
\* key out of the buffer (the store of WritePtr-- lowers the pointer the
\* interrupt left by one) and the slot it returns is the slot it released (the
\* pointer at the read is the one it stored), so every key stored is returned
\* once and nothing else is returned.
C35_NoKeyLostOrDuplicated ==
  /\ [][GetRawKeyStore => WritePtr' = WritePtr - 1]_vars
  /\ [][GetRawKeyRead => WritePtr = ctl.w - 1]_vars
(* ------------------------------------------------------------------ *)
(* Flags under the keyboard interrupt                                  *)
(*                                                                     *)
(* Flags is a volatile uint8_t in RAM; setflag(x) and clrflag(x) are   *)
(* Flags = Flags | 1<<x and Flags = Flags & ~(1<<x), a load and a      *)
(* store with interrupts enabled, and prin1object keeps the whole byte *)
(* in temp while it prints.  The interrupt runs between any two steps. *)
(* ------------------------------------------------------------------ *)

\* the evaluator inside an update of Flags: loaded is the byte the update has
\* read, temp the local of prin1object
FlagCtl(m, loaded, temp) ==
  [m |-> m, form |-> NULL, val |-> NULL, w |-> 0, oldest |-> 0, loaded |-> loaded, temp |-> temp]

\* a call of princ: head = cons(eval(fname), NULL); protect(head), then the
\* arguments (one or two, checkminmax)
EvalPrinc ==
  /\ Enters
  /\ ctl.form = NULL
  /\ \E n \in 1..MaxArgs :
     \E H1 \in {TryCell(EntryHeap, tee, NULL)} :
     \E H2 \in {IF H1.ok THEN TryCell(H1.H, H1.ptr, GCStack) ELSE H1} :
       IF H2.ok
         THEN /\ SetHeap(H2.H)
              /\ GCStack' = H2.ptr
              /\ stack' = Append(stack, [Frame("call") EXCEPT !.fn = "princ", !.todo = n, !.n = n,
                                                             !.head = H1.ptr, !.tail = H1.ptr])
              /\ ctl' = Ctl("eval")
         ELSE errorend(H2.H) /\ UNCHANGED stack
  /\ evrec' = NoEv
  /\ HeapRest /\ KbdSame /\ UNCHANGED <<handler, Flags>>

\* fn_princ calls prin1object: char temp = Flags
ApplyPrinc ==
  /\ ctl.m = "apply"
  /\ Top.fn = "princ"
  /\ ctl' = FlagCtl("princ-load", {}, Flags)
  /\ evrec' = NoEv
  /\ HeapRest /\ KbdSame /\ UNCHANGED <<Workspace, Freelist, Freespace, GCStack, stack, handler, Flags>>

\* prin1object: the load of clrflag(PRINTREADABLY)
PrincLoad ==
  /\ ctl.m = "princ-load"
  /\ ctl' = FlagCtl("princ-store", Flags, ctl.temp)
  /\ evrec' = NoEv
  /\ HeapRest /\ KbdSame /\ UNCHANGED <<Workspace, Freelist, Freespace, GCStack, stack, handler, Flags>>

\* prin1object: the store of clrflag(PRINTREADABLY), then printobject
PrincStore ==
  /\ ctl.m = "princ-store"
  /\ Flags' = clrflag(ctl.loaded, "PRINTREADABLY")
  /\ ctl' = FlagCtl("princ-print", {}, ctl.temp)
  /\ evrec' = NoEv
  /\ HeapRest /\ KbdSame /\ UNCHANGED <<Workspace, Freelist, Freespace, GCStack, stack, handler>>

\* prin1object: Flags = temp; fn_princ returns its first argument
PrincRestore ==
  /\ ctl.m = "princ-print"
  /\ Flags' = ctl.temp
  /\ CallDone(CurHeap, car(Workspace, cdr(Workspace, Top.head)))
  /\ evrec' = [NoEv EXCEPT !.op = "princ"]
  /\ HeapRest /\ KbdSame /\ UNCHANGED handler

\* fn_return (at most one argument, checkminmax): the load of setflag(RETURNFLAG)
ApplyReturnLoad ==
  /\ ctl.m = "apply"
  /\ Top.fn = "return"
  /\ IF Top.n > 1
       THEN errorend(CurHeap)
       ELSE /\ ctl' = FlagCtl("return-store", Flags, {})
            /\ UNCHANGED <<Workspace, Freelist, Freespace, GCStack>>
  /\ evrec' = NoEv
  /\ HeapRest /\ KbdSame /\ UNCHANGED <<stack, handler, Flags>>

\* fn_return: the store of setflag(RETURNFLAG); nil or the first argument
ReturnStore ==
  /\ ctl.m = "return-store"
  /\ Flags' = setflag(ctl.loaded, "RETURNFLAG")
  /\ CallDone(CurHeap, IF Top.n = 0 THEN NULL
                       ELSE car(Workspace, cdr(Workspace, Top.head)))
  /\ evrec' = NoEv
  /\ HeapRest /\ KbdSame /\ UNCHANGED handler

\* the evaluator with princ and return, the keyboard in line mode
FlagNext ==
  \/ ReplRead \/ EvalEscape \/ EvalError \/ EvalAtom
  \/ EvalCall \/ EvalPrinc \/ RetRepl \/ RetArg
  \/ ApplyPlain \/ ApplyReadChar \/ ApplyReturnLoad \/ ReturnStore
  \/ ApplyPrinc \/ PrincLoad \/ PrincStore \/ PrincRestore
  \/ LandTop \/ KeyPress

SpecFlag == Init /\ [][FlagNext]_vars

\* C36: an escape request is never lost: once the keyboard interrupt has set
\* ESCAPE, no step but eval's own test (clrflag(ESCAPE) followed by the error
\* 'escape!') clears it, whatever the interleaving of the interrupt with the
\* evaluator's updates of Flags.
C36_EscapeKept ==
  [][(tstflag(Flags, "ESCAPE") /\ ~tstflag(Flags', "ESCAPE")) =>
        (ctl.m = "eval" /\ ctl'.m = "throw")]_vars
(* ------------------------------------------------------------------ *)
(* The bounds of the edit buffer                                       *)
(* ------------------------------------------------------------------ *)

\* C37: the edit buffer never overflows: after any sequence of buf-init,
\* buf-insert and buf-delete calls EditBufLen is in 0 .. EditBufSize, so that
\* no character was written at an index outside [0, EditBufSize).
C37_BufferBounded ==
  0 <= EditBufLen /\ EditBufLen <= EditBufSize
(* ------------------------------------------------------------------ *)
(* RETURNFLAG at the prompt                                            *)
(* ------------------------------------------------------------------ *)

\* C38: RETURNFLAG does not leak between evaluations: whenever the
\* read-eval-print loop is about to read a form RETURNFLAG is clear, whatever
\* the forms evaluated before did (a return outside a loop, an error).
C38_ReturnFlagClearAtPrompt ==
  ctl.m = "prompt" => ~tstflag(Flags, "RETURNFLAG")
(* ------------------------------------------------------------------ *)
(* The cell of t                                                       *)
(* ------------------------------------------------------------------ *)

\* allocations, collections, compactions and save-image
TeeNext ==
  \/ NewCons \/ NewSymbol \/ Protect \/ Unprotect \/ Defvar
  \/ EvalGc \/ ReplGc \/ SaveCompact \/ SaveWrite

SpecTee == Init /\ [][TeeNext]_vars

\* C39: the cell of the symbol t is stable: after initenv, whatever is
\* allocated, collected, compacted and saved, tee points to the cell it was
\* given, that cell is a SYMBOL cell with the name of t and is not on the free
\* list.
C39_TeeStable ==
  /\ [](/\ Workspace[Idx(tee)] = [car |-> SYMBOL, cdr |-> twist(TEE + BUILTINS)]
        /\ Idx(tee) \notin OnFreeList)
  /\ [][tee' = tee]_vars

\* a compaction has moved a cell to a lower place; tee is where it was
C39_CellsMoved ==
  /\ rec.op = "compactimage"
  /\ \E i \in DOMAIN rec.fwd : rec.fwd[i] # i
  /\ tee = Addr(0)

====
